---- MODULE Spec2Model ----
(***************************************************************************)
(* FWD (fire/rescue dispatch bulletin watcher), class FwdNagaoka of        *)
(* fwd-nagaoka/src/fwdnagaoka/fwd_nagaoka.py: one invocation fetches the   *)
(* bulletin page, splits it in the "current" and the "past" zone, stores   *)
(* every statement not stored yet, analyses the stored statements that     *)
(* have no detail row and posts the ones whose notify_status is NOT_YET.   *)
(*                                                                         *)
(* Strings are sequences of characters.  A character is written as a       *)
(* one-character string ("0".."9", " ", ":") or, for Japanese text, as a   *)
(* romanised word standing for a run of characters that no pattern of the  *)
(* program can split:                                                      *)
(*   gatsu = U+6708, nichi = U+65E5, maru = U+3002 (full stop),            *)
(*   ni = U+306B, no = U+306E, ha = U+306F, tame = U+305F U+3081,          *)
(*   kasai = fire, kyujo = rescue, keikai = alert, kyukyu = ambulance,     *)
(*   shutsudo = "fire engines were dispatched",                            *)
(*   shuryo = "... has ended" (after kyujo: "rescue complete"),            *)
(*   shoka no hitsuyo ha arimasen = "no extinguishing was needed",         *)
(*   chinatsu = "contained", chinka = "extinguished",                      *)
(*   Nagaoka = the home municipality, Mitsuke = a neighbouring one,        *)
(*   wsp = U+3000 (full-width space), nl = line break,                     *)
(*   CURR_OPEN, CURR_CLOSE, PAST_OPEN, PAST_CLOSE = the four zone markers, *)
(*   html = any other page text.                                           *)
(* An optional value (a nullable column) is <<>> or <<value>>.             *)
(***************************************************************************)
EXTENDS Integers, Sequences, FiniteSets, TLC

VARIABLES
    rows,               \* table nagaoka_raw_text; a row's id is its index
    details,            \* table nagaoka_disaster_detail, a set of rows
    pc,                 \* where the running invocation stands
    mode,               \* "live" (execute) or "backfill" (store_old_data)
    webpage_text_dev,   \* <<current zone, past zone>> of the page in hand
    matches,            \* statements of the zone still to be stored, oldest first
    retrieve_dt,        \* retrieve_dt of the running _commit_disaster_list_*
    notify_stat,        \* notify_stat of the running _commit_disaster_list_*
    not_analyzed_list,  \* rows of _analyze still to be visited
    not_notified_list,  \* rows of _notify still to be visited
    cur,                \* row _notify is at: <<>> or <<id>>
    posted,             \* history: messages the channel accepted, per row id
    attempted,          \* history: ids _notify called post_to_discord for, this pass
    outcome,            \* history: how the last invocation ended
    pass_start,         \* history: rows in the table when the running loop began
    unsplit,            \* history: the page that did not split listed, in its
                        \* current zone, a statement the table did not have
    text_arg,           \* a call of _analyze_text on its own: <<>>, or <<the row handed in>>
    detail_ret,         \* its result: <<>>, <<the detail returned>> or <<the error raised>>
    close_arg,          \* argument of a lone call of _get_close_dt
    close_ret,          \* what that call returned or raised
    run_start,          \* len(rows) when the running invocation started
    page_start,         \* len(rows) when the page or file being stored was taken up
    inv,                \* two invocations of execute at once: what each holds in memory
    fetches             \* history: pages read so far (bounds the model)

vars == <<rows, details, pc, mode, webpage_text_dev, matches, retrieve_dt,
          notify_stat, not_analyzed_list, not_notified_list, cur, posted,
          attempted, outcome, pass_start, unsplit, text_arg, detail_ret, close_arg,
          close_ret, run_start, page_start, inv, fetches>>

-----------------------------------------------------------------------------
(* Bounds of the model *)

\* pages (downloads and snapshot files) read in one behaviour
MaxFetch == 2

\* statements listed on one page, both zones together
MaxPage == 2

-----------------------------------------------------------------------------
(* Characters and sequences *)

None == <<>>

Some(x) == <<x>>

Range(s) == {s[i] : i \in 1..Len(s)}

\* a sequence in the order it has
SameOrder(s) == s

Reverse(s) == [i \in 1..Len(s) |-> s[Len(s) + 1 - i]]

Digits == {"0", "1", "2", "3", "4", "5", "6", "7", "8", "9"}

\* \s of the patterns
Spaces == {" ", "wsp", "nl"}

DigitVal(c) ==
    CASE c = "0" -> 0 [] c = "1" -> 1 [] c = "2" -> 2 [] c = "3" -> 3
      [] c = "4" -> 4 [] c = "5" -> 5 [] c = "6" -> 6 [] c = "7" -> 7
      [] c = "8" -> 8 [] c = "9" -> 9

\* int() of the group \d{2} that starts at s[i]
Int2(s, i) == 10 * DigitVal(s[i]) + DigitVal(s[i + 1])

\* the literal w occurs in s at position i
At(s, i, w) ==
    /\ i >= 1
    /\ i + Len(w) - 1 <= Len(s)
    /\ \A k \in 1..Len(w) : s[i + k - 1] = w[k]

\* re.search of a literal
Search(w, s) == \E i \in 1..Len(s) : At(s, i, w)

\* \d{2} at position i
TwoDigits(s, i) == i >= 1 /\ i + 1 <= Len(s) /\ s[i] \in Digits /\ s[i + 1] \in Digits

-----------------------------------------------------------------------------
(* datetime.datetime, as the analyser uses it *)

DateTime(y, mo, d, h, mi) == [year |-> y, month |-> mo, day |-> d, hour |-> h, minute |-> mi]

IsLeap(y) == (y % 4 = 0 /\ y % 100 # 0) \/ y % 400 = 0

DaysInMonth(y, mo) ==
    IF mo \in {4, 6, 9, 11} THEN 30
    ELSE IF mo = 2 THEN (IF IsLeap(y) THEN 29 ELSE 28)
    ELSE 31

\* the constructor raises ValueError outside these ranges
ValidDateTime(y, mo, d, h, mi) ==
    /\ mo \in 1..12
    /\ d >= 1
    /\ d <= DaysInMonth(y, mo)
    /\ h \in 0..23
    /\ mi \in 0..59

\* a <= b on datetimes
DtNotAfter(a, b) ==
    <<a.year, a.month, a.day, a.hour, a.minute>> = <<b.year, b.month, b.day, b.hour, b.minute>>
        \/ \E i \in 1..5 :
              /\ <<a.year, a.month, a.day, a.hour, a.minute>>[i]
                    < <<b.year, b.month, b.day, b.hour, b.minute>>[i]
              /\ \A j \in 1..(i - 1) :
                    <<a.year, a.month, a.day, a.hour, a.minute>>[j]
                        = <<b.year, b.month, b.day, b.hour, b.minute>>[j]

\* a < b on datetimes
DtLess(a, b) ==
    LET ka == <<a.year, a.month, a.day, a.hour, a.minute>>
        kb == <<b.year, b.month, b.day, b.hour, b.minute>>
    IN  \E i \in 1..5 : ka[i] < kb[i] /\ \A j \in 1..(i - 1) : ka[j] = kb[j]

\* dt + datetime.timedelta(days=1)
AddOneDay(dt) ==
    IF dt.day < DaysInMonth(dt.year, dt.month)
    THEN [dt EXCEPT !.day = dt.day + 1]
    ELSE IF dt.month < 12
    THEN [dt EXCEPT !.day = 1, !.month = dt.month + 1]
    ELSE [dt EXCEPT !.day = 1, !.month = 1, !.year = dt.year + 1]

RECURSIVE DaysBeforeMonth(_, _)
\* the days of year y before its month mo
DaysBeforeMonth(y, mo) ==
    IF mo = 1 THEN 0 ELSE DaysBeforeMonth(y, mo - 1) + DaysInMonth(y, mo - 1)

\* dt.toordinal(): the days from 0001-01-01 to the date of dt, that day as 1
toordinal(dt) ==
    365 * (dt.year - 1) + (dt.year - 1) \div 4 - (dt.year - 1) \div 100
        + (dt.year - 1) \div 400 + DaysBeforeMonth(dt.year, dt.month) + dt.day

\* (a - b) in minutes, a and b datetimes
MinutesBetween(a, b) ==
    1440 * (toordinal(a) - toordinal(b)) + 60 * (a.hour - b.hour) + (a.minute - b.minute)

-----------------------------------------------------------------------------
(* _analyze_text: the two patterns and the classification *)

HomeCity == <<"Nagaoka">>

\* "$": the end of the string, or just before a final line break
EndOf(s) == IF Len(s) >= 1 /\ s[Len(s)] = "nl" THEN Len(s) - 1 ELSE Len(s)

\* position of the space that ends the group "city" (\S+? followed by " "),
\* 0 when the first pattern cannot match
CityEnd(s) ==
    LET ks == {k \in 15..(EndOf(s) - 2) :
                  /\ s[k] = " "
                  /\ \A j \in 14..(k - 1) : s[j] \notin Spaces}
    IN  IF ks = {} THEN 0 ELSE CHOOSE k \in ks : TRUE

\* m_1st is not None
FirstMatches(s) ==
    /\ EndOf(s) >= 17
    /\ TwoDigits(s, 1)
    /\ s[3] = "gatsu"
    /\ TwoDigits(s, 4)
    /\ s[6] = "nichi"
    /\ s[7] = " "
    /\ TwoDigits(s, 8)
    /\ s[10] = ":"
    /\ TwoDigits(s, 11)
    /\ s[13] = " "
    /\ CityEnd(s) # 0
    /\ s[EndOf(s)] = "maru"
    /\ \A j \in (CityEnd(s) + 1)..(EndOf(s) - 1) : s[j] # "nl"

\* the groups of m_1st
m_1st(s) ==
    [month  |-> Int2(s, 1),
     day    |-> Int2(s, 4),
     hour   |-> Int2(s, 8),
     minute |-> Int2(s, 11),
     city   |-> SubSeq(s, 14, CityEnd(s) - 1),
     next   |-> SubSeq(s, CityEnd(s) + 1, EndOf(s) - 1)]

\* where the group "status" starts when the address has a characters and the
\* category c characters, 0 when the second pattern does not match that way
StatusStart(n, a, c) ==
    LET t == a + 2 + c
    IN  IF \A j \in (a + 2)..(a + 1 + c) : n[j] \notin Spaces
        THEN IF t + 1 <= EndOf(n) /\ n[t] = "ha" THEN t + 1
             ELSE IF t + 2 <= EndOf(n) /\ n[t] = "no" /\ n[t + 1] = "tame" THEN t + 2
             ELSE 0
        ELSE 0

\* the length of the group "category" when the address has a characters: the
\* group is lazy, the shortest wins; 0 when the pattern does not match that way
CategoryLen(n, a) ==
    LET cs == {c \in 1..(EndOf(n) - a - 3) : StatusStart(n, a, c) # 0}
    IN  IF a + 1 <= Len(n) /\ n[a + 1] \in {"ni", "no"} /\ cs # {}
        THEN CHOOSE c \in cs : \A d \in cs : c <= d
        ELSE 0

\* the length of the group "address": the group is lazy, the shortest wins;
\* 0 when the second pattern does not match
AddressLen(n) ==
    LET as == {a \in 1..(Len(n) - 3) : n[a + 1] \in {"ni", "no"} /\ CategoryLen(n, a) # 0}
    IN  IF as # {} /\ \A j \in 1..Len(n) : n[j] # "nl"
        THEN CHOOSE a \in as : \A b \in as : a <= b
        ELSE 0

\* m_2nd is not None
SecondMatches(n) == AddressLen(n) # 0

\* the groups of m_2nd
m_2nd(n) ==
    LET a == AddressLen(n)
        c == CategoryLen(n, a)
    IN  [address  |-> SubSeq(n, 1, a),
         category |-> SubSeq(n, a + 2, a + 1 + c),
         status   |-> SubSeq(n, StatusStart(n, a, c), EndOf(n))]

\* the same with the rescue keyword looked for before the fire keyword
main_category_rescue_first(category_str) ==
    IF Search(<<"kyujo">>, category_str) THEN "RESCUE"
    ELSE IF Search(<<"kasai">>, category_str) THEN "FIRE"
    ELSE IF Search(<<"keikai">>, category_str) THEN "ALERT"
    ELSE IF Search(<<"kyukyu">>, category_str) THEN "MEDICAL_SUPPORT"
    ELSE "OTHER"

\* category_str -> DisasterMainCategory (FIRE = kasai, RESCUE = kyujo,
\* ALERT = keikai, MEDICAL_SUPPORT = kyukyu-shien, OTHER = sonota)
main_category(category_str) ==
    IF Search(<<"kasai">>, category_str) THEN "FIRE"
    ELSE IF Search(<<"kyujo">>, category_str) THEN "RESCUE"
    ELSE IF Search(<<"keikai">>, category_str) THEN "ALERT"
    ELSE IF Search(<<"kyukyu">>, category_str) THEN "MEDICAL_SUPPORT"
    ELSE "OTHER"

\* positions of " " in the address
AddressSpaces(address) == {i \in 1..Len(address) : address[i] = " "}

\* address.split(" ") has exactly two parts
SplitUnpacks(address) == Cardinality(AddressSpaces(address)) = 1

\* close_dt_m is not None
CloseMatches(status_str) ==
    /\ EndOf(status_str) >= 6
    /\ TwoDigits(status_str, 1)
    /\ status_str[3] = ":"
    /\ TwoDigits(status_str, 4)
    /\ \A j \in 6..EndOf(status_str) : status_str[j] # "nl"

\* _get_close_dt raises (hour or minute out of range)
CloseRaises(status_str, open_dt) ==
    /\ CloseMatches(status_str)
    /\ ~ValidDateTime(open_dt.year, open_dt.month, open_dt.day,
                      Int2(status_str, 1), Int2(status_str, 4))

\* _get_close_dt without the step to the next day
_get_close_dt_same_day(status_str, open_dt) ==
    IF ~CloseMatches(status_str) THEN None
    ELSE Some(DateTime(open_dt.year, open_dt.month, open_dt.day,
                       Int2(status_str, 1), Int2(status_str, 4)))

_get_close_dt(status_str, open_dt) ==
    IF ~CloseMatches(status_str) THEN None
    ELSE LET close_dt == DateTime(open_dt.year, open_dt.month, open_dt.day,
                                  Int2(status_str, 1), Int2(status_str, 4))
         IN  IF DtLess(close_dt, open_dt) THEN Some(AddOneDay(close_dt))
             ELSE Some(close_dt)

\* the same with the close time read in the branch of no extinguishing needed
StatusOfReadsClose(status_str, text_pos) ==
    IF Search(<<"shutsudo">>, status_str)
    THEN [status |-> IF text_pos = "CURR" THEN "OPENED" ELSE "CLOSED", closes |-> FALSE]
    ELSE IF Search(<<"kyujo", "shuryo">>, status_str)
    THEN [status |-> "RESCUE_COMPLETE", closes |-> TRUE]
    ELSE IF Search(<<"shoka", "no", "hitsuyo", "ha", "arimasen">>, status_str)
    THEN [status |-> "NO_EXTINGUISH_NEEDED", closes |-> TRUE]
    ELSE IF Search(<<"chinatsu">>, status_str)
    THEN [status |-> "CONTAINED", closes |-> TRUE]
    ELSE IF Search(<<"chinka">>, status_str)
    THEN [status |-> "EXTINGUISHED", closes |-> TRUE]
    ELSE [status |-> "CLOSED", closes |-> FALSE]

\* the same with the extinguished phrase looked for before the contained phrase
StatusOfExtinguishedFirst(status_str, text_pos) ==
    IF Search(<<"shutsudo">>, status_str)
    THEN [status |-> IF text_pos = "CURR" THEN "OPENED" ELSE "CLOSED", closes |-> FALSE]
    ELSE IF Search(<<"kyujo", "shuryo">>, status_str)
    THEN [status |-> "RESCUE_COMPLETE", closes |-> TRUE]
    ELSE IF Search(<<"shoka", "no", "hitsuyo", "ha", "arimasen">>, status_str)
    THEN [status |-> "NO_EXTINGUISH_NEEDED", closes |-> FALSE]
    ELSE IF Search(<<"chinka">>, status_str)
    THEN [status |-> "EXTINGUISHED", closes |-> TRUE]
    ELSE IF Search(<<"chinatsu">>, status_str)
    THEN [status |-> "CONTAINED", closes |-> TRUE]
    ELSE [status |-> "CLOSED", closes |-> FALSE]

\* the same with the dispatch phrase looked for last
StatusOfDispatchLast(status_str, text_pos) ==
    IF Search(<<"kyujo", "shuryo">>, status_str)
    THEN [status |-> "RESCUE_COMPLETE", closes |-> TRUE]
    ELSE IF Search(<<"shoka", "no", "hitsuyo", "ha", "arimasen">>, status_str)
    THEN [status |-> "NO_EXTINGUISH_NEEDED", closes |-> FALSE]
    ELSE IF Search(<<"chinatsu">>, status_str)
    THEN [status |-> "CONTAINED", closes |-> TRUE]
    ELSE IF Search(<<"chinka">>, status_str)
    THEN [status |-> "EXTINGUISHED", closes |-> TRUE]
    ELSE IF Search(<<"shutsudo">>, status_str)
    THEN [status |-> IF text_pos = "CURR" THEN "OPENED" ELSE "CLOSED", closes |-> FALSE]
    ELSE [status |-> "CLOSED", closes |-> FALSE]

\* the same with the zone of the statement left out of account
StatusOfAnyZone(status_str, text_pos) ==
    IF Search(<<"shutsudo">>, status_str)
    THEN [status |-> "CLOSED", closes |-> FALSE]
    ELSE IF Search(<<"kyujo", "shuryo">>, status_str)
    THEN [status |-> "RESCUE_COMPLETE", closes |-> TRUE]
    ELSE IF Search(<<"shoka", "no", "hitsuyo", "ha", "arimasen">>, status_str)
    THEN [status |-> "NO_EXTINGUISH_NEEDED", closes |-> FALSE]
    ELSE IF Search(<<"chinatsu">>, status_str)
    THEN [status |-> "CONTAINED", closes |-> TRUE]
    ELSE IF Search(<<"chinka">>, status_str)
    THEN [status |-> "EXTINGUISHED", closes |-> TRUE]
    ELSE [status |-> "CLOSED", closes |-> FALSE]

\* DisasterStatus (OPENED = hassei, RESCUE_COMPLETE = kyujo-shuryo,
\* NO_EXTINGUISH_NEEDED = shoka-fuyo, CONTAINED = chinatsu,
\* EXTINGUISHED = chinka, CLOSED = shuryo) and whether the branch reads the
\* close time
StatusOf(status_str, text_pos) ==
    IF Search(<<"shutsudo">>, status_str)
    THEN [status |-> IF text_pos = "CURR" THEN "OPENED" ELSE "CLOSED", closes |-> FALSE]
    ELSE IF Search(<<"kyujo", "shuryo">>, status_str)
    THEN [status |-> "RESCUE_COMPLETE", closes |-> TRUE]
    ELSE IF Search(<<"shoka", "no", "hitsuyo", "ha", "arimasen">>, status_str)
    THEN [status |-> "NO_EXTINGUISH_NEEDED", closes |-> FALSE]
    ELSE IF Search(<<"chinatsu">>, status_str)
    THEN [status |-> "CONTAINED", closes |-> TRUE]
    ELSE IF Search(<<"chinka">>, status_str)
    THEN [status |-> "EXTINGUISHED", closes |-> TRUE]
    ELSE [status |-> "CLOSED", closes |-> FALSE]

\* year of open_dt with the months compared by <=
open_year_inclusive(retr_dt, month) ==
    IF retr_dt.month <= month THEN retr_dt.year - 1 ELSE retr_dt.year

\* year of open_dt
open_year(retr_dt, month) ==
    IF retr_dt.month < month THEN retr_dt.year - 1 ELSE retr_dt.year

\* _analyze_text raises: a pattern does not match, a datetime is out of
\* range, or the address does not split in two
AnalyzeRaises(raw_text_data) ==
    LET s  == raw_text_data.raw_text
        m1 == m_1st(s)
        y  == open_year(raw_text_data.retr_dt, m1.month)
        m2 == m_2nd(m1.next)
        st == StatusOf(m2.status, raw_text_data.text_pos)
    IN  IF ~FirstMatches(s) THEN TRUE
        ELSE IF ~ValidDateTime(y, m1.month, m1.day, m1.hour, m1.minute) THEN TRUE
        ELSE IF ~SecondMatches(m1.next) THEN TRUE
        ELSE IF ~SplitUnpacks(m2.address) THEN TRUE
        ELSE st.closes /\ CloseRaises(m2.status,
                              DateTime(y, m1.month, m1.day, m1.hour, m1.minute))

\* the NagaokaDisasterDetail _analyze_text returns for row id
_analyze_text(id, raw_text_data) ==
    LET s    == raw_text_data.raw_text
        m1   == m_1st(s)
        m2   == m_2nd(m1.next)
        open == DateTime(open_year(raw_text_data.retr_dt, m1.month),
                         m1.month, m1.day, m1.hour, m1.minute)
        sp   == CHOOSE i \in AddressSpaces(m2.address) : TRUE
        addr2 == SubSeq(m2.address, 1, sp - 1)
        addr3 == SubSeq(m2.address, sp + 1, Len(m2.address))
        st   == StatusOf(m2.status, raw_text_data.text_pos)
    IN  [raw_text_id   |-> id,
         main_category |-> main_category(m2.category),
         sub_category  |-> m2.category,
         open_dt       |-> open,
         close_dt      |-> IF st.closes THEN _get_close_dt(m2.status, open) ELSE None,
         status        |-> st.status,
         address1      |-> IF m1.city # HomeCity THEN Some(m1.city) ELSE None,
         address2      |-> addr2,
         address3      |-> IF addr3 # <<>> THEN Some(addr3) ELSE None]

-----------------------------------------------------------------------------
(* The statements and the times the model draws its inputs from *)

\* "03/05 09:15 Nagaoka Chuo 1-chome ni tatemono-kasai no tame <dispatched>."
StmtOpen ==
    <<"0", "3", "gatsu", "0", "5", "nichi", " ", "0", "9", ":", "1", "5", " ",
      "Nagaoka", " ", "Chuo", " ", "1chome", "ni", "tatemono", "kasai",
      "no", "tame", "shutsudo", "maru">>

\* "03/05 23:50 Mitsuke Honcho 2-chome no tatemono-kasai ha 00:10 <extinguished>."
StmtExtinguished ==
    <<"0", "3", "gatsu", "0", "5", "nichi", " ", "2", "3", ":", "5", "0", " ",
      "Mitsuke", " ", "Honcho", " ", "2chome", "no", "tatemono", "kasai",
      "ha", "0", "0", ":", "1", "0", "chinka", "maru">>

\* "03/05 09:15 Nagaoka <a drill is held>.": a bulletin line the second
\* pattern does not match
StmtBad ==
    <<"0", "3", "gatsu", "0", "5", "nichi", " ", "0", "9", ":", "1", "5", " ",
      "Nagaoka", " ", "kunren", "maru">>

Statements == {StmtOpen, StmtExtinguished, StmtBad}

\* datetime.now() of a live run: after the statements' month
Nows == {DateTime(2024, 3, 6, 10, 0)}

\* the times the snapshot files are named after: before the statements' month
FileTimes == {DateTime(2024, 1, 2, 8, 30)}

-----------------------------------------------------------------------------
(* The page: _cleansing_webtext, _split_webtext and the pattern of re.findall *)

_cleansing_webtext(webpage_text) ==
    [i \in 1..Len(webpage_text) |->
        IF webpage_text[i] = "wsp" THEN " " ELSE webpage_text[i]]

\* positions of the character w in t
Places(t, w) == {i \in 1..Len(t) : t[i] = w}

\* positions <<a, b, c, d>> the four markers can take in a match of pat: each
\* .+ and each group takes at least one character
MarkerPlaces(t) ==
    {q \in Places(t, "CURR_OPEN") \X Places(t, "CURR_CLOSE")
            \X Places(t, "PAST_OPEN") \X Places(t, "PAST_CLOSE") :
        /\ q[1] >= 2
        /\ q[2] >= q[1] + 2
        /\ q[3] >= q[2] + 2
        /\ q[4] >= q[3] + 2
        /\ q[4] + 1 <= Len(t)}

\* pat.match(webpage_text) is not None
SplitMatches(webpage_text) == MarkerPlaces(webpage_text) # {}

\* the largest tuple of Q in the order of the tuples: every .+ is greedy, so
\* each marker is taken as far right as the rest of the pattern allows
Greediest(Q) ==
    CHOOSE q \in Q : \A r \in Q :
        \/ r = q
        \/ \E i \in 1..4 : r[i] < q[i] /\ \A j \in 1..(i - 1) : r[j] = q[j]

_split_webtext(webpage_text) ==
    LET q == Greediest(MarkerPlaces(webpage_text))
    IN  <<SubSeq(webpage_text, q[1] + 1, q[2] - 1),
          SubSeq(webpage_text, q[3] + 1, q[4] - 1)>>

\* where a match of <span>(\d{2}gatsu\d{2}nichi.+?maru)</span> that starts at
\* z[i] ends its group, 0 when none starts there (.+? is lazy and takes no nl)
SpanEnd(z, i) ==
    LET es == {e \in (i + 8)..(Len(z) - 1) :
                  /\ z[e] = "maru"
                  /\ z[e + 1] = "</span>"
                  /\ \A j \in (i + 7)..(e - 1) : z[j] # "nl"}
    IN  IF /\ i + 6 <= Len(z)
           /\ z[i] = "<span>"
           /\ TwoDigits(z, i + 1)
           /\ z[i + 3] = "gatsu"
           /\ TwoDigits(z, i + 4)
           /\ z[i + 6] = "nichi"
           /\ es # {}
        THEN CHOOSE e \in es : \A f \in es : e <= f
        ELSE 0

RECURSIVE FindAllFrom(_, _)
\* re.findall from position p on: leftmost matches, not overlapping
FindAllFrom(z, p) ==
    LET starts == {i \in p..Len(z) : SpanEnd(z, i) # 0}
    IN  IF starts = {} THEN <<>>
        ELSE LET i == CHOOSE x \in starts : \A y \in starts : x <= y
             IN  <<SubSeq(z, i + 1, SpanEnd(z, i))>> \o FindAllFrom(z, SpanEnd(z, i) + 2)

FindAll(z) == FindAllFrom(z, 1)

RECURSIVE Spans(_)
\* the page text of a list of statements, newest first
Spans(list) ==
    IF list = <<>> THEN <<>>
    ELSE <<"<span>">> \o Head(list) \o <<"</span>", "nl">> \o Spans(Tail(list))

\* a bulletin page; one without its last marker is what a change of the
\* page's format looks like
PageOf(curr, past, closed) ==
    <<"html", "nl", "CURR_OPEN", "nl">> \o Spans(curr)
        \o <<"CURR_CLOSE", "nl", "html", "nl", "PAST_OPEN", "nl">> \o Spans(past)
        \o (IF closed THEN <<"PAST_CLOSE">> ELSE <<>>) \o <<"nl", "html">>

StatementLists == UNION {[1..n -> Statements] : n \in 0..MaxPage}

Pages ==
    {PageOf(cp[1], cp[2], closed) :
        cp \in {x \in StatementLists \X StatementLists : Len(x[1]) + Len(x[2]) <= MaxPage},
        closed \in BOOLEAN}

\* the pages pat matches, and the others
GoodPages == {p \in Pages : SplitMatches(_cleansing_webtext(p))}

BadPages == Pages \ GoodPages

\* what _split_webtext returns for the pages it accepts
SplitPages == {_split_webtext(_cleansing_webtext(p)) : p \in GoodPages}

\* the text between the markers of the current zone, whatever follows them
CurrentZone(t) ==
    LET a == CHOOSE i \in Places(t, "CURR_OPEN") : \A j \in Places(t, "CURR_OPEN") : i <= j
        b == CHOOSE i \in Places(t, "CURR_CLOSE") : \A j \in Places(t, "CURR_CLOSE") : i <= j
    IN  SubSeq(t, a + 1, b - 1)

\* the statements the pages pat does not match list in their current zone
BadCurrent == {FindAll(CurrentZone(_cleansing_webtext(p))) : p \in BadPages}

\* matches[::-1] of each zone text: the statements found, oldest first
OldestFirst == [z \in UNION {{d[1], d[2]} : d \in SplitPages} |-> Reverse(FindAll(z))]

-----------------------------------------------------------------------------
(* The store *)

Ids == 1..Len(rows)

\* raw_text_data.detail_info is not None
HasDetail(id) == \E d \in details : d.raw_text_id = id

\* raw_text_data.detail_info
detail_info(id) == CHOOSE d \in details : d.raw_text_id = id

\* the existence query with the zone of _commit_disaster_list_curr copied
\* into _commit_disaster_list_past unchanged
registered_curr(rs, match_str, text_pos) ==
    \E i \in 1..Len(rs) : rs[i].raw_text = match_str /\ rs[i].text_pos = "CURR"

\* the existence query without the filter on text_pos
registered_any_zone(rs, match_str, text_pos) ==
    \E i \in 1..Len(rs) : rs[i].raw_text = match_str

\* the existence query of _commit_disaster_list_curr and _past, on table rs
registered(rs, match_str, text_pos) ==
    \E i \in 1..Len(rs) : rs[i].raw_text = match_str /\ rs[i].text_pos = text_pos

\* the NagaokaRawText created without notify_status: the column's default,
\* NOT_YET, is stored
raw_text_data_default(match_str, retr_dt, text_pos, notify_status) ==
    [raw_text      |-> match_str,
     retr_dt       |-> retr_dt,
     text_pos      |-> text_pos,
     notify_status |-> "NOT_YET"]

\* the NagaokaRawText the loop body creates
raw_text_data(match_str, retr_dt, text_pos, notify_status) ==
    [raw_text      |-> match_str,
     retr_dt       |-> retr_dt,
     text_pos      |-> text_pos,
     notify_status |-> notify_status]

\* one turn of the loop without the existence query
commit_one_unchecked(rs, match_str, retr_dt, text_pos, notify_status) ==
    Append(rs, raw_text_data(match_str, retr_dt, text_pos, notify_status))

\* one turn of the loop as an upsert: a registered statement is stored again
\* over its row
commit_one_upsert(rs, match_str, retr_dt, text_pos, notify_status) ==
    IF registered(rs, match_str, text_pos)
    THEN [i \in 1..Len(rs) |->
            IF rs[i].raw_text = match_str /\ rs[i].text_pos = text_pos
            THEN raw_text_data(match_str, retr_dt, text_pos, notify_status)
            ELSE rs[i]]
    ELSE Append(rs, raw_text_data(match_str, retr_dt, text_pos, notify_status))

\* the table after one turn of the loop on table rs: the statement is added
\* and committed unless it is registered
commit_one(rs, match_str, retr_dt, text_pos, notify_status) ==
    IF registered(rs, match_str, text_pos)
    THEN rs
    ELSE Append(rs, raw_text_data(match_str, retr_dt, text_pos, notify_status))

RECURSIVE commit_disaster_list(_, _, _, _, _)
\* the table after the whole loop over the statements ms, oldest first
commit_disaster_list(rs, ms, retr_dt, text_pos, notify_status) ==
    IF ms = <<>> THEN rs
    ELSE commit_disaster_list(commit_one(rs, Head(ms), retr_dt, text_pos, notify_status),
                              Tail(ms), retr_dt, text_pos, notify_status)

\* the list ms has a statement the table does not have in the current zone
NewIn(ms) == \E m \in Range(ms) : ~registered(rows, m, "CURR")

\* what no invocation is running leaves of its local variables
Idle ==
    /\ pc' = "idle"
    /\ mode' = "none"
    /\ webpage_text_dev' = <<>>
    /\ matches' = <<>>
    /\ retrieve_dt' = None
    /\ notify_stat' = "none"
    /\ not_analyzed_list' = {}
    /\ not_notified_list' = {}
    /\ cur' = None
    /\ pass_start' = 0
    /\ run_start' = 0
    /\ page_start' = 0

\* the tables setup() creates are empty and nothing runs
Installed ==
    /\ rows = <<>>
    /\ details = {}
    /\ pc = "idle"
    /\ mode = "none"
    /\ webpage_text_dev = <<>>
    /\ matches = <<>>
    /\ retrieve_dt = None
    /\ notify_stat = "none"
    /\ not_analyzed_list = {}
    /\ not_notified_list = {}
    /\ cur = None
    /\ posted = <<>>
    /\ attempted = {}
    /\ outcome = "none"
    /\ pass_start = 0
    /\ run_start = 0
    /\ page_start = 0
    /\ unsplit = FALSE
    /\ fetches = 0

Init ==
    /\ Installed
    /\ text_arg = None
    /\ detail_ret = None
    /\ close_arg = None
    /\ close_ret = None
    /\ inv = <<>>

-----------------------------------------------------------------------------
(* execute: download, split, and the start of _commit_disaster_list_curr *)

\* download_webpage raises; execute logs it and returns
ExecuteDownloadFails ==
    /\ pc = "idle"
    /\ outcome' = "download_failed"
    /\ attempted' = {}
    /\ Idle
    /\ unsplit' = FALSE
    /\ UNCHANGED <<rows, details, posted, fetches, text_arg, detail_ret, close_arg, close_ret,
                   inv>>

\* execute splitting zone by zone: the current zone is cut out and stored
\* before the markers of the past zone are looked for
ExecuteSplitsByZone ==
    /\ pc = "idle"
    /\ \E ms \in BadCurrent, now \in Nows :
          /\ unsplit' = NewIn(ms)
          /\ rows' = commit_disaster_list(rows, Reverse(ms), now, "CURR", "NOT_YET")
    /\ posted' = [i \in 1..Len(rows') |-> IF i <= Len(posted) THEN posted[i] ELSE 0]
    /\ outcome' = "split_failed"
    /\ attempted' = {}
    /\ Idle
    /\ UNCHANGED <<details, fetches, text_arg, detail_ret, close_arg, close_ret, inv>>

\* _split_webtext raises ValueError; execute logs it and returns
ExecuteSplitFails ==
    /\ pc = "idle"
    /\ unsplit' \in {NewIn(ms) : ms \in BadCurrent}
    /\ outcome' = "split_failed"
    /\ attempted' = {}
    /\ Idle
    /\ UNCHANGED <<rows, details, posted, fetches, text_arg, detail_ret, close_arg, close_ret,
                   inv>>

\* the page splits: _commit_disaster_list_curr(webpage_text_dev[0]) starts,
\* with retrieve_dt = now() and notify_stat = NOT_YET
Execute ==
    /\ pc = "idle"
    /\ fetches < MaxFetch
    /\ \E dev \in SplitPages, now \in Nows :
          /\ webpage_text_dev' = dev
          /\ retrieve_dt' = Some(now)
    /\ matches' = OldestFirst[webpage_text_dev'[1]]
    /\ notify_stat' = "NOT_YET"
    /\ pc' = "curr"
    /\ mode' = "live"
    /\ outcome' = "running"
    /\ attempted' = {}
    /\ fetches' = fetches + 1
    /\ cur' = None
    /\ not_notified_list' = {}
    /\ pass_start' = Len(rows)
    /\ unsplit' = FALSE
    /\ run_start' = Len(rows)
    /\ page_start' = Len(rows)
    /\ UNCHANGED <<rows, details, not_analyzed_list, posted, text_arg, detail_ret, close_arg,
                   close_ret, inv>>

-----------------------------------------------------------------------------
(* store_old_data: the loop over the snapshot files *)

\* store_old_data starts; files whose name is not <date>_<time>.txt are skipped
StoreOldData ==
    /\ pc = "idle"
    /\ pc' = "files"
    /\ mode' = "backfill"
    /\ outcome' = "running"
    /\ attempted' = {}
    /\ cur' = None
    /\ not_notified_list' = {}
    /\ unsplit' = FALSE
    /\ run_start' = Len(rows)
    /\ page_start' = 0
    /\ UNCHANGED <<rows, details, webpage_text_dev, matches, retrieve_dt, notify_stat,
                   not_analyzed_list, posted, pass_start, fetches, text_arg, detail_ret,
                   close_arg, close_ret, inv>>

\* store_old_data calling _commit_disaster_list_curr without retrieve_time:
\* the rows of the file are stored NOT_YET
StoreNextFileNotYet ==
    /\ pc = "files"
    /\ fetches < MaxFetch
    /\ \E dev \in SplitPages, retrieve_time \in FileTimes :
          /\ webpage_text_dev' = dev
          /\ retrieve_dt' = Some(retrieve_time)
    /\ matches' = OldestFirst[webpage_text_dev'[1]]
    /\ notify_stat' = "NOT_YET"
    /\ pc' = "curr"
    /\ fetches' = fetches + 1
    /\ pass_start' = Len(rows)
    /\ page_start' = Len(rows)
    /\ UNCHANGED <<rows, details, mode, not_analyzed_list, not_notified_list, cur,
                   posted, attempted, outcome, unsplit, text_arg, detail_ret, close_arg,
                   close_ret, run_start, inv>>

\* the next file splits: _commit_disaster_list_curr(webpage_text_dev[0],
\* retrieve_time) starts, with notify_stat = SKIPPED
StoreNextFile ==
    /\ pc = "files"
    /\ fetches < MaxFetch
    /\ \E dev \in SplitPages, retrieve_time \in FileTimes :
          /\ webpage_text_dev' = dev
          /\ retrieve_dt' = Some(retrieve_time)
    /\ matches' = OldestFirst[webpage_text_dev'[1]]
    /\ notify_stat' = "SKIPPED"
    /\ pc' = "curr"
    /\ fetches' = fetches + 1
    /\ pass_start' = Len(rows)
    /\ page_start' = Len(rows)
    /\ UNCHANGED <<rows, details, mode, not_analyzed_list, not_notified_list, cur,
                   posted, attempted, outcome, unsplit, text_arg, detail_ret, close_arg,
                   close_ret, run_start, inv>>

\* a file does not split: store_old_data logs it and returns without analysing
StoreSplitFails ==
    /\ pc = "files"
    /\ unsplit' \in {NewIn(ms) : ms \in BadCurrent}
    /\ outcome' = "file_split_failed"
    /\ Idle
    /\ UNCHANGED <<rows, details, posted, attempted, fetches, text_arg, detail_ret, close_arg,
                   close_ret, inv>>

-----------------------------------------------------------------------------
(* _commit_disaster_list_curr and _commit_disaster_list_past *)

\* one turn of the loop: the oldest statement left is stored and committed
\* unless a row with its text and zone exists
CommitOne(text_pos) ==
    /\ matches # <<>>
    /\ rows' = commit_one(rows, Head(matches), retrieve_dt[1], text_pos, notify_stat)
    /\ posted' = [i \in 1..Len(rows') |-> IF i <= Len(posted) THEN posted[i] ELSE 0]
    /\ matches' = Tail(matches)
    /\ UNCHANGED <<details, pc, mode, webpage_text_dev, retrieve_dt, notify_stat,
                   not_analyzed_list, not_notified_list, cur, attempted, outcome,
                   pass_start, fetches, unsplit, text_arg, detail_ret, close_arg, close_ret,
                   run_start, page_start, inv>>

_commit_disaster_list_curr == pc = "curr" /\ CommitOne("CURR")

_commit_disaster_list_past == pc = "past" /\ CommitOne("PAST")

\* _commit_disaster_list_curr returns and _commit_disaster_list_past starts:
\* live it reads the clock again, a backfill passes the file's time again
CurrReturns ==
    /\ pc = "curr"
    /\ matches = <<>>
    /\ pc' = "past"
    /\ matches' = OldestFirst[webpage_text_dev[2]]
    /\ IF mode = "live"
       THEN \E now \in Nows : retrieve_dt' = Some(now)
       ELSE retrieve_dt' = retrieve_dt
    /\ pass_start' = Len(rows)
    /\ UNCHANGED <<rows, details, mode, webpage_text_dev, notify_stat, not_analyzed_list,
                   not_notified_list, cur, posted, attempted, outcome, fetches, unsplit,
                   text_arg, detail_ret, close_arg, close_ret, run_start, page_start, inv>>

\* the selection of _analyze without the filter on detail_info
EveryRow == Ids

\* the rows _analyze selects: those without a detail row
Unanalyzed == {i \in Ids : ~HasDetail(i)}

\* _commit_disaster_list_past returns: execute goes on to _analyze,
\* store_old_data to its next file
PastReturns ==
    /\ pc = "past"
    /\ matches = <<>>
    /\ pc' = IF mode = "live" THEN "analyze" ELSE "files"
    /\ not_analyzed_list' = IF mode = "live" THEN Unanalyzed ELSE {}
    /\ webpage_text_dev' = <<>>
    /\ retrieve_dt' = None
    /\ notify_stat' = "none"
    /\ pass_start' = 0
    /\ run_start' = IF mode = "live" THEN 0 ELSE run_start
    /\ page_start' = 0
    /\ UNCHANGED <<rows, details, mode, matches, not_notified_list, cur, posted,
                   attempted, outcome, fetches, unsplit, text_arg, detail_ret, close_arg,
                   close_ret, inv>>

\* no file is left: store_old_data goes on to _analyze
StoreFilesDone ==
    /\ pc = "files"
    /\ pc' = "analyze"
    /\ not_analyzed_list' = Unanalyzed
    /\ run_start' = 0
    /\ UNCHANGED <<rows, details, mode, webpage_text_dev, matches, retrieve_dt, notify_stat,
                   not_notified_list, cur, posted, attempted, outcome, pass_start, fetches,
                   unsplit, text_arg, detail_ret, close_arg, close_ret, page_start, inv>>

-----------------------------------------------------------------------------
(* _analyze *)

\* one turn of the loop of _analyze without the update of notify_status
_analyze_detail_only ==
    /\ pc = "analyze"
    /\ \E id \in not_analyzed_list :
          /\ ~AnalyzeRaises(rows[id])
          /\ details' = details \cup {_analyze_text(id, rows[id])}
          /\ not_analyzed_list' = not_analyzed_list \ {id}
    /\ UNCHANGED <<rows, pc, mode, webpage_text_dev, matches, retrieve_dt, notify_stat,
                   not_notified_list, cur, posted, attempted, outcome, pass_start,
                   unsplit, fetches, text_arg, detail_ret, close_arg, close_ret, run_start,
                   page_start, inv>>

\* one turn of the loop, on a row _analyze_text does not raise for: the row
\* becomes SKIPPED when the status is CLOSED, and the detail row and that
\* change are committed together.  The query has no ORDER BY: any row still
\* to be visited may come next
_analyze ==
    /\ pc = "analyze"
    /\ \E id \in not_analyzed_list :
          /\ ~AnalyzeRaises(rows[id])
          /\ LET detail_data == _analyze_text(id, rows[id])
             IN  /\ details' = details \cup {detail_data}
                 /\ rows' = IF detail_data.status = "CLOSED"
                            THEN [rows EXCEPT ![id].notify_status = "SKIPPED"]
                            ELSE rows
          /\ not_analyzed_list' = not_analyzed_list \ {id}
    /\ UNCHANGED <<pc, mode, webpage_text_dev, matches, retrieve_dt, notify_stat,
                   not_notified_list, cur, posted, attempted, outcome, pass_start, fetches,
                   unsplit, text_arg, detail_ret, close_arg, close_ret, run_start, page_start,
                   inv>>

\* _analyze catching the failure per row and going on to the next row
AnalyzeSkips ==
    /\ pc = "analyze"
    /\ \E id \in not_analyzed_list :
          /\ AnalyzeRaises(rows[id])
          /\ not_analyzed_list' = not_analyzed_list \ {id}
    /\ UNCHANGED <<rows, details, pc, mode, webpage_text_dev, matches, retrieve_dt,
                   notify_stat, not_notified_list, cur, posted, attempted, outcome,
                   pass_start, fetches, unsplit, text_arg, detail_ret, close_arg, close_ret,
                   run_start, page_start, inv>>

\* execute logging the failure of _analyze and going on to _notify
AnalyzeFailsAndNotifies ==
    /\ pc = "analyze"
    /\ \E id \in not_analyzed_list : AnalyzeRaises(rows[id])
    /\ outcome' = "analyze_failed"
    /\ pc' = "notify"
    /\ not_notified_list' = {i \in Ids : rows[i].notify_status = "NOT_YET"}
    /\ UNCHANGED <<rows, details, mode, webpage_text_dev, matches, retrieve_dt, notify_stat,
                   not_analyzed_list, cur, posted, attempted, pass_start, fetches, unsplit,
                   text_arg, detail_ret, close_arg, close_ret, run_start, page_start, inv>>

\* _analyze marking the row it fails on SKIPPED before it raises
AnalyzeFailsSkipsRow ==
    /\ pc = "analyze"
    /\ \E id \in {i \in not_analyzed_list : AnalyzeRaises(rows[i])} :
          rows' = [rows EXCEPT ![id].notify_status = "SKIPPED"]
    /\ outcome' = "analyze_failed"
    /\ Idle
    /\ UNCHANGED <<details, posted, attempted, fetches, unsplit, text_arg, detail_ret,
                   close_arg, close_ret, inv>>

\* _analyze_text raises on the row in turn: _analyze rolls back (nothing is
\* pending) and raises, and execute or store_old_data logs it and returns
AnalyzeFails ==
    /\ pc = "analyze"
    /\ \E id \in not_analyzed_list : AnalyzeRaises(rows[id])
    /\ outcome' = "analyze_failed"
    /\ Idle
    /\ UNCHANGED <<rows, details, posted, attempted, fetches, unsplit, text_arg, detail_ret,
                   close_arg, close_ret, inv>>

\* the selection of _notify filtering on "not SKIPPED" instead of NOT_YET
NotSkipped == {i \in Ids : rows[i].notify_status # "SKIPPED"}

\* the rows _notify selects
NotYet == {i \in Ids : rows[i].notify_status = "NOT_YET"}

\* _analyze returning with rows of its list still to be visited
AnalyzeReturnsEarly ==
    /\ pc = "analyze"
    /\ not_analyzed_list' = {}
    /\ IF mode = "live"
       THEN /\ pc' = "notify"
            /\ not_notified_list' = NotYet
            /\ UNCHANGED <<mode, outcome>>
       ELSE /\ pc' = "idle"
            /\ not_notified_list' = {}
            /\ mode' = "none"
            /\ outcome' = "completed"
    /\ UNCHANGED <<rows, details, webpage_text_dev, matches, retrieve_dt, notify_stat,
                   cur, posted, attempted, pass_start, fetches, unsplit,
                   text_arg, detail_ret, close_arg, close_ret, run_start, page_start, inv>>

\* _analyze returns: execute goes on to _notify, store_old_data returns
AnalyzeReturns ==
    /\ pc = "analyze"
    /\ not_analyzed_list = {}
    /\ IF mode = "live"
       THEN /\ pc' = "notify"
            /\ not_notified_list' = NotYet
            /\ UNCHANGED <<mode, outcome>>
       ELSE /\ pc' = "idle"
            /\ not_notified_list' = {}
            /\ mode' = "none"
            /\ outcome' = "completed"
    /\ UNCHANGED <<rows, details, webpage_text_dev, matches, retrieve_dt, notify_stat,
                   not_analyzed_list, cur, posted, attempted, pass_start, fetches, unsplit,
                   text_arg, detail_ret, close_arg, close_ret, run_start, page_start, inv>>

-----------------------------------------------------------------------------
(* _notify *)

\* the message of a row is rendered and post_to_discord returns: the channel
\* has the message, the row is not yet NOTIFIED
NotifyPost ==
    /\ pc = "notify"
    /\ \E id \in not_notified_list :
          /\ HasDetail(id)
          /\ cur' = Some(id)
          /\ posted' = [posted EXCEPT ![id] = @ + 1]
          /\ attempted' = attempted \cup {id}
    /\ pc' = "notified"
    /\ UNCHANGED <<rows, details, mode, webpage_text_dev, matches, retrieve_dt, notify_stat,
                   not_analyzed_list, not_notified_list, outcome, pass_start, fetches, unsplit,
                   text_arg, detail_ret, close_arg, close_ret, run_start, page_start, inv>>

\* raw_text_data.notify_status = NOTIFIED; session.commit()
NotifyCommit ==
    /\ pc = "notified"
    /\ rows' = [rows EXCEPT ![cur[1]].notify_status = "NOTIFIED"]
    /\ not_notified_list' = not_notified_list \ {cur[1]}
    /\ cur' = None
    /\ pc' = "notify"
    /\ UNCHANGED <<details, mode, webpage_text_dev, matches, retrieve_dt, notify_stat,
                   not_analyzed_list, posted, attempted, outcome, pass_start, fetches, unsplit,
                   text_arg, detail_ret, close_arg, close_ret, run_start, page_start, inv>>

\* _notify setting NOTIFIED and committing before it posts: the row whose
\* post fails is left NOTIFIED
NotifyFailsMarked ==
    /\ pc = "notify"
    /\ \E id \in not_notified_list :
          /\ cur' = Some(id)
          /\ attempted' = IF HasDetail(id) THEN attempted \cup {id} ELSE attempted
          /\ rows' = [rows EXCEPT ![id].notify_status = "NOTIFIED"]
    /\ pc' = "idle"
    /\ mode' = "none"
    /\ outcome' = "notify_failed"
    /\ UNCHANGED <<details, webpage_text_dev, matches, retrieve_dt, notify_stat,
                   not_analyzed_list, not_notified_list, posted, pass_start, fetches, unsplit,
                   text_arg, detail_ret, close_arg, close_ret, run_start, page_start, inv>>

\* rendering raises (the row has no detail) or post_to_discord raises on the
\* row in turn: _notify rolls back (nothing is pending) and raises, execute
\* logs it and returns.  cur and not_notified_list keep the row that failed
\* and the rows the pass had not visited
NotifyFails ==
    /\ pc = "notify"
    /\ \E id \in not_notified_list :
          /\ cur' = Some(id)
          /\ attempted' = IF HasDetail(id) THEN attempted \cup {id} ELSE attempted
    /\ pc' = "idle"
    /\ mode' = "none"
    /\ outcome' = "notify_failed"
    /\ UNCHANGED <<rows, details, webpage_text_dev, matches, retrieve_dt, notify_stat,
                   not_analyzed_list, not_notified_list, posted, pass_start, fetches, unsplit,
                   text_arg, detail_ret, close_arg, close_ret, run_start, page_start, inv>>

\* _notify returning with rows of its list still to be visited
NotifyReturnsEarly ==
    /\ pc = "notify"
    /\ outcome' = "completed"
    /\ attempted' = {}
    /\ Idle
    /\ UNCHANGED <<rows, details, posted, fetches, unsplit, text_arg, detail_ret, close_arg,
                   close_ret, inv>>

\* _notify and execute return
NotifyReturns ==
    /\ pc = "notify"
    /\ not_notified_list = {}
    /\ outcome' = "completed"
    /\ attempted' = {}
    /\ Idle
    /\ UNCHANGED <<rows, details, posted, fetches, unsplit, text_arg, detail_ret, close_arg,
                   close_ret, inv>>

-----------------------------------------------------------------------------
(* The process is terminated from outside: what is committed stays, the rest
   is lost *)

\* termination when the loop commits once, after its last statement: the rows
\* the running loop has added are lost with it
TerminateUncommitted ==
    /\ pc # "idle"
    /\ outcome' = "killed"
    /\ attempted' = {}
    /\ Idle
    /\ rows' = IF pc \in {"curr", "past"} THEN SubSeq(rows, 1, pass_start) ELSE rows
    /\ posted' = IF pc \in {"curr", "past"} THEN SubSeq(posted, 1, pass_start) ELSE posted
    /\ UNCHANGED <<details, fetches, unsplit, text_arg, detail_ret, close_arg, close_ret, inv>>

\* the process is terminated: Idle, with the last outcome recorded
Terminate ==
    /\ pc # "idle"
    /\ outcome' = "killed"
    /\ attempted' = {}
    /\ Idle
    /\ UNCHANGED <<rows, details, posted, fetches, unsplit, text_arg, detail_ret, close_arg,
                   close_ret, inv>>

-----------------------------------------------------------------------------

Next ==
    \/ ExecuteDownloadFails
    \/ ExecuteSplitFails
    \/ Execute
    \/ StoreOldData
    \/ StoreNextFile
    \/ StoreSplitFails
    \/ _commit_disaster_list_curr
    \/ _commit_disaster_list_past
    \/ CurrReturns
    \/ PastReturns
    \/ StoreFilesDone
    \/ _analyze
    \/ AnalyzeFails
    \/ AnalyzeReturns
    \/ NotifyPost
    \/ NotifyCommit
    \/ NotifyFails
    \/ NotifyReturns
    \/ Terminate

Spec == Init /\ [][Next]_vars

\* the steps of an invocation that is running: the process is single-threaded
\* and synchronous, and goes on until it returns
RunStep ==
    \/ StoreNextFile
    \/ StoreSplitFails
    \/ _commit_disaster_list_curr
    \/ _commit_disaster_list_past
    \/ CurrReturns
    \/ PastReturns
    \/ StoreFilesDone
    \/ _analyze
    \/ AnalyzeFails
    \/ AnalyzeReturns
    \/ NotifyPost
    \/ NotifyCommit
    \/ NotifyFails
    \/ NotifyReturns

\* the pages that list no statement
QuietPages == {d \in SplitPages : OldestFirst[d[1]] = <<>> /\ OldestFirst[d[2]] = <<>>}

\* execute on a page that lists no statement: the run stores nothing, and
\* is not counted
ExecuteQuiet ==
    /\ pc = "idle"
    /\ \E dev \in QuietPages, now \in Nows :
          /\ webpage_text_dev' = dev
          /\ retrieve_dt' = Some(now)
    /\ matches' = OldestFirst[webpage_text_dev'[1]]
    /\ notify_stat' = "NOT_YET"
    /\ pc' = "curr"
    /\ mode' = "live"
    /\ outcome' = "running"
    /\ attempted' = {}
    /\ cur' = None
    /\ not_notified_list' = {}
    /\ pass_start' = Len(rows)
    /\ unsplit' = FALSE
    /\ run_start' = Len(rows)
    /\ page_start' = Len(rows)
    /\ UNCHANGED <<rows, details, not_analyzed_list, posted, fetches, text_arg, detail_ret,
                   close_arg, close_ret, inv>>

\* execute run again and again, with every download and every post
\* succeeding and the process never terminated from outside
RepeatNext ==
    \/ Execute
    \/ ExecuteQuiet
    \/ _commit_disaster_list_curr
    \/ _commit_disaster_list_past
    \/ CurrReturns
    \/ PastReturns
    \/ _analyze
    \/ AnalyzeFails
    \/ AnalyzeReturns
    \/ NotifyPost
    \/ NotifyCommit
    \/ NotifyReturns

\* every run goes on until it returns (weak fairness of RunStep), and a new
\* run is started again and again
RepeatSpec ==
    /\ Init
    /\ [][RepeatNext]_vars
    /\ ([]<>(pc = "idle") \/ []<><<RunStep>>_vars)
    /\ SF_vars(Execute \/ ExecuteQuiet)

\* the same machine, with every invocation that has started going on: weak
\* fairness of RunStep, which is enabled exactly when pc # "idle"
LiveSpec == Init /\ [][Next]_vars /\ ([]<>(pc = "idle") \/ []<><<RunStep>>_vars)
-----------------------------------------------------------------------------
(* _analyze_text called on its own, on rows built from the parts of a
   statement: month, day, time, city, address, category and status clause *)

DigitChar(k) == <<"0", "1", "2", "3", "4", "5", "6", "7", "8", "9">>[k + 1]

\* the two digits of n
Two(n) == <<DigitChar(n \div 10), DigitChar(n % 10)>>

\* "MM gatsu DD nichi HH:MM <city> <address><joint><category><reason><status> maru"
Statement(mo, d, h, mi, city, address, joint, category, reason, status) ==
    Two(mo) \o <<"gatsu">> \o Two(d) \o <<"nichi", " ">> \o Two(h) \o <<":">> \o Two(mi)
        \o <<" ">> \o city \o <<" ">> \o address \o joint \o category \o reason
        \o status \o <<"maru">>

\* a row of the raw-text table as _analyze_text reads it
Row(raw_text, retr_dt, text_pos) ==
    [raw_text |-> raw_text, retr_dt |-> retr_dt, text_pos |-> text_pos,
     notify_status |-> "NOT_YET"]

Block == <<"Chuo", " ", "1chome">>

Dispatched == <<"shutsudo">>

BuildingFire == <<"tatemono", "kasai">>

\* every month of a statement against every month of two years of retrieval
YearCases ==
    {Row(Statement(mo, 5, 9, 15, HomeCity, Block, <<"ni">>, BuildingFire,
                   <<"no", "tame">>, Dispatched),
         DateTime(y, rm, 6, 10, 0), "CURR") :
        mo \in 1..12, y \in {2024, 2025}, rm \in 1..12}

\* <<month, day, hour, minute>> a statement opens at: mid-month, before
\* midnight, at midnight, and on the last day of a month, of February and of
\* the year
OpenTimes ==
    {<<3, 5, 9, 15>>, <<3, 5, 23, 50>>, <<3, 5, 0, 0>>, <<4, 30, 23, 50>>,
     <<2, 28, 23, 50>>, <<12, 31, 23, 50>>}

\* <<hour, minute>> a status clause starts with; 24:00 is no time of day
CloseTimes == {<<0, 0>>, <<0, 10>>, <<9, 14>>, <<9, 15>>, <<14, 30>>, <<23, 50>>, <<24, 0>>}

\* the status phrases after which _analyze_text reads the close time
ClosePhrases == {<<"chinka">>, <<"chinatsu">>, <<"kyujo", "shuryo">>}

\* status phrases after which it does not: no extinguishing needed,
\* dispatched, and a phrase it does not know
OtherPhrases == {<<"shoka", "no", "hitsuyo", "ha", "arimasen">>, <<"shutsudo">>, <<"chosa">>}

\* retrieval at the end of a leap year and of a common year
CloseCases ==
    {Row(Statement(o[1], o[2], o[3], o[4], <<"Mitsuke">>, Block, <<"no">>, BuildingFire,
                   <<"ha">>, Two(c[1]) \o <<":">> \o Two(c[2]) \o ph),
         DateTime(y, 12, 31, 23, 59), "PAST") :
        o \in OpenTimes, c \in CloseTimes, ph \in ClosePhrases \cup OtherPhrases,
        y \in {2024, 2025}}

\* the words of a category clause: the four keywords and one that is none
CategoryWords == {"kasai", "kyujo", "keikai", "kyukyu", "chosa"}

CategoryClauses == UNION {[1..n -> CategoryWords] : n \in 1..2}

CategoryCases ==
    {Row(Statement(3, 5, 9, 15, HomeCity, Block, <<"ni">>, cat, <<"no", "tame">>,
                   Dispatched),
         DateTime(2024, 3, 6, 10, 0), zone) :
        cat \in CategoryClauses, zone \in {"CURR", "PAST"}}

\* an address with a block, with nothing after its space, without a space
\* and with two spaces: split(" ") unpacks the first two only
Addresses == {Block, <<"Chuo", " ">>, <<"Chuo">>, <<"Chuo", " ", "1chome", " ", "kita">>}

AddressCases ==
    {Row(Statement(3, 5, 9, 15, city, address, <<"ni">>, BuildingFire, <<"no", "tame">>,
                   Dispatched),
         DateTime(2024, 3, 6, 10, 0), "CURR") :
        city \in {HomeCity, <<"Mitsuke">>}, address \in Addresses}

\* the phrases of a status clause by the status their branch gives, and a
\* phrase no branch looks for
PhraseOf ==
    [OPENED               |-> Dispatched,
     RESCUE_COMPLETE      |-> <<"kyujo", "shuryo">>,
     NO_EXTINGUISH_NEEDED |-> <<"shoka", "no", "hitsuyo", "ha", "arimasen">>,
     CONTAINED            |-> <<"chinatsu">>,
     EXTINGUISHED         |-> <<"chinka">>,
     CLOSED               |-> <<"chosa">>]

\* one phrase, or two in either order
PhraseLists == UNION {[1..n -> DOMAIN PhraseOf] : n \in 1..2}

\* nothing, or the time "14:30", before the phrases
LeadingTimes == {<<>>, Two(14) \o <<":">> \o Two(30)}

\* the status clause with the leading time t and the phrases named by ns
Clause(t, ns) ==
    t \o PhraseOf[ns[1]] \o (IF Len(ns) = 2 THEN PhraseOf[ns[2]] ELSE <<>>)

\* the statement of 03/05 09:15 with that status clause
StatusStatement(t, ns) ==
    Statement(3, 5, 9, 15, HomeCity, Block, <<"ni">>, BuildingFire, <<"no", "tame">>,
              Clause(t, ns))

StatusCases ==
    {Row(StatusStatement(t, ns), DateTime(2024, 3, 6, 10, 0), zone) :
        t \in LeadingTimes, ns \in PhraseLists, zone \in {"CURR", "PAST"}}

AnalyzerCases ==
    YearCases \cup CloseCases \cup CategoryCases \cup AddressCases \cup StatusCases

main_vars == <<rows, details, pc, mode, webpage_text_dev, matches, retrieve_dt,
               notify_stat, not_analyzed_list, not_notified_list, cur, posted,
               attempted, outcome, pass_start, unsplit, run_start, page_start,
               fetches>>

\* <<status_str, open_dt>> of _get_close_dt: each status clause with and
\* without a leading time, each opening time in a leap and a common year
CloseArgs ==
    {<<t \o ph, DateTime(y, o[1], o[2], o[3], o[4])>> :
        t \in {Two(c[1]) \o <<":">> \o Two(c[2]) : c \in CloseTimes} \cup {<<>>},
        ph \in ClosePhrases \cup OtherPhrases, o \in OpenTimes, y \in {2024, 2025}}

AnalyzerInit ==
    /\ Installed
    /\ inv = <<>>
    /\ detail_ret = None
    /\ close_ret = None
    /\ \/ text_arg \in {Some(r) : r \in AnalyzerCases} /\ close_arg = None
       \/ text_arg = None /\ close_arg \in {Some(a) : a \in CloseArgs}

\* _analyze_text returns detail_data
AnalyzeText ==
    /\ text_arg # None
    /\ detail_ret = None
    /\ ~AnalyzeRaises(text_arg[1])
    /\ detail_ret' = Some(_analyze_text(1, text_arg[1]))
    /\ UNCHANGED <<main_vars, text_arg, close_arg, close_ret, run_start, page_start, inv>>

\* _analyze_text logs the failure and raises
AnalyzeTextRaises ==
    /\ text_arg # None
    /\ detail_ret = None
    /\ AnalyzeRaises(text_arg[1])
    /\ detail_ret' = Some([error |-> "ValueError"])
    /\ UNCHANGED <<main_vars, text_arg, close_arg, close_ret, run_start, page_start, inv>>

\* _get_close_dt returns close_dt or None
GetCloseDt ==
    /\ close_arg # None
    /\ close_ret = None
    /\ ~CloseRaises(close_arg[1][1], close_arg[1][2])
    /\ close_ret' = Some([close_dt |-> _get_close_dt(close_arg[1][1], close_arg[1][2])])
    /\ UNCHANGED <<main_vars, text_arg, detail_ret, close_arg, run_start, page_start, inv>>

\* the datetime constructor of _get_close_dt raises
GetCloseDtRaises ==
    /\ close_arg # None
    /\ close_ret = None
    /\ CloseRaises(close_arg[1][1], close_arg[1][2])
    /\ close_ret' = Some([error |-> "ValueError"])
    /\ UNCHANGED <<main_vars, text_arg, detail_ret, close_arg, run_start, page_start, inv>>

AnalyzerNext == AnalyzeText \/ AnalyzeTextRaises \/ GetCloseDt \/ GetCloseDtRaises

AnalyzerSpec == AnalyzerInit /\ [][AnalyzerNext]_vars

-----------------------------------------------------------------------------
(* Properties of ingestion *)

\* the zone the running loop stores, and the statements it was handed
Zone == IF pc = "curr" THEN "CURR" ELSE "PAST"

Handed == OldestFirst[webpage_text_dev[IF pc = "curr" THEN 1 ELSE 2]]

\* the table as it was when the running loop began
Before == SubSeq(rows, 1, pass_start)

\* the (retrieve_dt, notify_stat) pairs a loop can run with: live, backfill
Passes == (Nows \X {"NOT_YET"}) \cup (FileTimes \X {"SKIPPED"})

Zones == {"CURR", "PAST"}

\* C1: in every reachable state, whatever live and backfill runs came before
\* and whatever the pages listed, no two rows of the raw-text table have the
\* same text and the same zone
C1_UniqueTextZone ==
    \A i, j \in Ids :
        (rows[i].raw_text = rows[j].raw_text /\ rows[i].text_pos = rows[j].text_pos)
            => i = j

\* a loop has ended whose zone listed one statement twice, and the table has
\* that statement in that zone
C1_Witness ==
    /\ pc \in {"curr", "past"}
    /\ matches = <<>>
    /\ Len(Handed) = 2
    /\ Handed[1] = Handed[2]
    /\ registered(rows, Handed[1], Zone)
    /\ Len(rows) = pass_start + 1

\* C2: on every table an invocation can start from, for every list of
\* statements and every zone, a second loop over the same statements and zone
\* returns the table the first loop left (same rows, same ids, same fields)
\* and so inserts nothing; and the table a loop of the program leaves is the
\* one the fold computes
C2_Idempotent ==
    /\ pc = "idle" =>
          \A ms \in StatementLists, text_pos \in Zones, first \in Passes, second \in Passes :
              LET once == commit_disaster_list(rows, ms, first[1], text_pos, first[2])
              IN  commit_disaster_list(once, ms, second[1], text_pos, second[2]) = once
    /\ (pc \in {"curr", "past"} /\ matches = <<>>)
          => rows = commit_disaster_list(Before, Handed, retrieve_dt[1], Zone, notify_stat)

\* a loop over a non-empty list has ended without inserting, all its
\* statements having been stored by an earlier loop
C2_Witness ==
    /\ pc \in {"curr", "past"}
    /\ matches = <<>>
    /\ Handed # <<>>
    /\ pass_start > 0
    /\ Len(rows) = pass_start
\* C8: every row a loop inserts is one row, for the statement in turn, with
\* retr_dt the retrieval time of the pass (the file's time in a backfill, the
\* clock's in a live run), text_pos the zone of the loop, and notify_status
\* SKIPPED in a backfill and NOT_YET in a live run
C8_InsertedFields ==
    [][Len(rows') > Len(rows)
          => /\ Len(rows') = Len(rows) + 1
             /\ pc \in {"curr", "past"}
             /\ rows'[Len(rows')].raw_text = Head(matches)
             /\ rows'[Len(rows')].retr_dt = retrieve_dt[1]
             /\ retrieve_dt[1] \in (IF mode = "backfill" THEN FileTimes ELSE Nows)
             /\ rows'[Len(rows')].text_pos = Zone
             /\ rows'[Len(rows')].notify_status =
                    (IF mode = "backfill" THEN "SKIPPED" ELSE "NOT_YET")]_vars

\* a backfill loop over the past zone has inserted a row
C8_Witness ==
    /\ mode = "backfill"
    /\ pc = "past"
    /\ Len(rows) > pass_start
    /\ rows[Len(rows)].notify_status = "SKIPPED"
    /\ rows[Len(rows)].text_pos = "PAST"

\* C9: no step of an ingestion loop changes a row that is in the table, a
\* detail row, or what has been posted; a row it inserts has nothing posted
C9_IngestFrame ==
    [][(pc \in {"curr", "past"})
          => /\ SubSeq(rows', 1, Len(rows)) = rows
             /\ details' = details
             /\ posted' = [i \in 1..Len(rows') |-> IF i \in Ids THEN posted[i] ELSE 0]]_vars

\* a live loop has ended that was handed a statement a backfill had stored
\* in its zone: the row is as the backfill left it
C9_Witness ==
    /\ mode = "live"
    /\ pc \in {"curr", "past"}
    /\ matches = <<>>
    /\ \E i \in 1..pass_start :
          /\ rows[i].raw_text \in Range(Handed)
          /\ rows[i].text_pos = Zone
          /\ rows[i].retr_dt \in FileTimes
          /\ rows[i].notify_status = "SKIPPED"

\* the (raw_text, text_pos) pairs of a table
Keys(rs) == {<<rs[i].raw_text, rs[i].text_pos>> : i \in 1..Len(rs)}

\* the statements handed to the running loop that the table does not have
Missing == {m \in Range(Handed) : ~registered(rows, m, Zone)}

\* C10: wherever an ingestion loop is interrupted, the rows it has inserted
\* stay in the table, and running the loop again over the same statements
\* keeps them, inserts exactly the statements the table does not have, once
\* each, and ends with the (text, zone) pairs of an uninterrupted loop
C10_ResumableIngest ==
    [][(pc \in {"curr", "past"})
          => /\ pc' = "idle" => rows' = rows
             /\ \A again \in Passes :
                   LET rerun == commit_disaster_list(rows, Handed, again[1], Zone, again[2])
                       whole == commit_disaster_list(Before, Handed, retrieve_dt[1], Zone,
                                                     notify_stat)
                   IN  /\ SubSeq(rerun, 1, Len(rows)) = rows
                       /\ {rerun[i].raw_text : i \in Len(rows) + 1..Len(rerun)} = Missing
                       /\ Len(rerun) = Len(rows) + Cardinality(Missing)
                       /\ Keys(rerun) = Keys(whole)
                       /\ Cardinality(Keys(rerun)) = Len(rerun)]_vars

\* a loop over two statements has stopped after it inserted the first, and
\* the second is not in the table
C10_Witness ==
    /\ pc \in {"curr", "past"}
    /\ Len(Handed) = 2
    /\ Len(matches) = 1
    /\ Len(rows) = pass_start + 1
    /\ Missing = {Head(matches)}
    /\ pass_start > 0

-----------------------------------------------------------------------------
(* Properties of notification *)

\* C3: once a row is NOTIFIED, no step of any later pass or invocation posts
\* a message for it, selects it into not_notified_list, or takes it out of
\* NOTIFIED
C3_SentNeverAgain ==
    [][\A i \in Ids :
          rows[i].notify_status = "NOTIFIED"
              => /\ rows'[i].notify_status = "NOTIFIED"
                 /\ posted'[i] = posted[i]
                 /\ i \notin not_notified_list']_vars

\* a notification pass has selected rows to post while a row notified by an
\* earlier invocation is in the table
C3_Witness ==
    /\ pc = "notify"
    /\ not_notified_list # {}
    /\ \E i \in Ids : /\ rows[i].notify_status = "NOTIFIED"
                      /\ i \notin attempted
                      /\ posted[i] = 1

\* C4 (refuted by the code): no row's message is posted more than once in
\* total, although the process may be terminated between any two steps of
\* _notify and run again
C4_PostedAtMostOnce == \A i \in Ids : posted[i] <= 1

\* C5: every row a notification pass has selected has a committed detail row,
\* whatever invocations came before and however they ended
C5_SelectedHasDetail ==
    pc \in {"notify", "notified"} => \A i \in not_notified_list : HasDetail(i)

\* a notification pass has selected rows, in a second invocation
C5_Witness ==
    /\ pc = "notify"
    /\ not_notified_list = NotYet
    /\ not_notified_list # {}
    /\ attempted = {}
    /\ fetches = MaxFetch
\* C6 (refuted by the code): when an analysis pass has met a statement that
\* does not parse, every row whose text does parse has a detail row at the
\* end of the pass
C6_ParseableAnalyzed ==
    outcome = "analyze_failed" => \A i \in Ids : ~AnalyzeRaises(rows[i]) => HasDetail(i)

\* the rows of the aborted pass the failing post came after, and before
Earlier == attempted \ {cur[1]}

Later == not_notified_list \ {cur[1]}

\* C7: when the post of a row has failed, the pass has ended there: no post
\* was attempted for the rows it had not reached, the failing row and those
\* rows are still NOT_YET, and every row posted earlier in the pass is
\* NOTIFIED and posted
C7_AbortOnSendFailure ==
    outcome = "notify_failed"
        => /\ pc = "idle"
           /\ cur # None
           /\ cur[1] \in not_notified_list
           /\ cur[1] \in attempted
           /\ \A i \in not_notified_list : rows[i].notify_status = "NOT_YET"
           /\ \A i \in Later : i \notin attempted
           /\ \A i \in Earlier : rows[i].notify_status = "NOTIFIED" /\ posted[i] >= 1

\* a post has failed after a row was posted and before another was reached
C7_Witness ==
    /\ outcome = "notify_failed"
    /\ Earlier # {}
    /\ Later # {}
-----------------------------------------------------------------------------
(* Properties of an invocation as a whole *)

\* C11: when _split_webtext raises on the page execute has downloaded, the
\* invocation ends with the raw-text table, the detail table and the channel
\* as they were, also when the current zone of the page is well-formed and
\* lists statements the table does not have
C11_SplitFailureStoresNothing ==
    [][(pc = "idle" /\ outcome' = "split_failed")
          => /\ rows' = rows
             /\ details' = details
             /\ posted' = posted
             /\ pc' = "idle"]_vars

\* execute has ended on a page that did not split and whose current zone
\* listed a statement the table does not have
C11_Witness ==
    /\ outcome = "split_failed"
    /\ pc = "idle"
    /\ unsplit
    /\ \E ms \in BadCurrent : NewIn(ms)
\* C12 (refuted by the code): a row a live run inserted (its retr_dt is the
\* clock's, not a file's) is never SKIPPED, whatever status the analysis
\* derives for it
C12_LiveNeverSkipped ==
    \A i \in Ids : rows[i].retr_dt \in Nows => rows[i].notify_status # "SKIPPED"
\* C12 (as the code has it): a row a live run inserted is SKIPPED exactly
\* when it has a detail row whose status is CLOSED; every other such row is
\* NOT_YET or NOTIFIED
C12_LiveSkippedIffClosed ==
    \A i \in Ids :
        rows[i].retr_dt \in Nows
            => /\ rows[i].notify_status = "SKIPPED"
                    <=> (HasDetail(i) /\ detail_info(i).status = "CLOSED")
               /\ rows[i].notify_status \in {"SKIPPED", "NOT_YET", "NOTIFIED"}

\* a row a live run inserted has been analysed as CLOSED and is SKIPPED
C12_Witness ==
    \E i \in Ids :
        /\ rows[i].retr_dt \in Nows
        /\ HasDetail(i)
        /\ detail_info(i).status = "CLOSED"
        /\ rows[i].notify_status = "SKIPPED"
\* C13: in every step, every detail row in the table stays as it is; a detail
\* row that is added belongs to a row of the raw-text table that was there
\* before the step and had no detail row; no two detail rows belong to one
\* row; and the rows _analyze has yet to visit have no detail row
C13_OneDetailOnce ==
    [][/\ \A d \in details : d \in details'
       /\ \A d \in details' \ details :
             /\ d.raw_text_id \in Ids
             /\ ~HasDetail(d.raw_text_id)
             /\ pc = "analyze"
       /\ \A d, e \in details' : d.raw_text_id = e.raw_text_id => d = e
       /\ \A d \in details' : d.raw_text_id \in 1..Len(rows')
       /\ pc' = "analyze" => \A i \in not_analyzed_list' : \A d \in details' : d.raw_text_id # i]_vars

\* _analyze is under way after a second page was read: a detail row is in
\* the table, and a row stored after its owner is still to be visited
C13_Witness ==
    /\ pc = "analyze"
    /\ fetches = MaxFetch
    /\ \E i \in Ids, j \in not_analyzed_list : HasDetail(i) /\ i < j
\* rows[i] is the dispatch statement StmtOpen, listed in the current zone
\* and stored by a live run
LiveOpen(i) ==
    /\ rows[i].raw_text = StmtOpen
    /\ rows[i].text_pos = "CURR"
    /\ rows[i].retr_dt \in Nows

\* C17: a fire dispatch statement of the home city, listed in the current
\* zone and stored by a live run in or after its month, is one row; it has at
\* most one detail, and has one once an analysis pass has gone through; that
\* detail is a FIRE, OPENED, with the first address part as address2, no
\* address1, no close_dt and open_dt in the year of retrieval
C17_DispatchEndToEnd ==
    \A i \in Ids :
        (LiveOpen(i) /\ rows[i].retr_dt.month >= 3)
            => /\ \A j \in Ids :
                     (rows[j].raw_text = StmtOpen /\ rows[j].text_pos = "CURR") => j = i
               /\ Cardinality({d \in details : d.raw_text_id = i}) <= 1
               /\ (pc \in {"notify", "notified"} \/ outcome = "completed")
                     => Cardinality({d \in details : d.raw_text_id = i}) = 1
               /\ \A d \in details :
                     d.raw_text_id = i
                        => /\ d.main_category = "FIRE"
                           /\ d.status = "OPENED"
                           /\ d.address2 = <<"Chuo">>
                           /\ d.address1 = None
                           /\ d.close_dt = None
                           /\ d.open_dt
                                 = DateTime(rows[i].retr_dt.year, 3, 5, 9, 15)

\* a live run has stored, analysed and posted the dispatch statement
C17_Witness ==
    /\ pc = "idle"
    /\ outcome = "completed"
    /\ \E i \in Ids :
          /\ LiveOpen(i)
          /\ rows[i].notify_status = "NOTIFIED"
          /\ \E d \in details : d.raw_text_id = i /\ d.status = "OPENED"

\* how a live run ends when one of its stages raises
StageFailures == {"download_failed", "split_failed", "analyze_failed", "notify_failed"}

\* the exit status of the launcher process after a run that ended with
\* outcome o: execute catches every Exception, logs it and returns None
\* whether a stage raised or not, execute_nagaoka and main return, and the
\* interpreter exits with 0; only a process terminated from outside ends
\* otherwise
exit_status(o) == IF o = "killed" THEN 1 ELSE 0

\* C18 (refuted by the code): a live run one of whose stages failed (the
\* download, the split, the analysis or the post) ends with an exit status
\* other than 0
C18_FailureExitsNonZero ==
    (pc = "idle" /\ outcome \in StageFailures) => exit_status(outcome) # 0

\* how a run of execute or of store_old_data ends when a stage raises
Failures == StageFailures \cup {"file_split_failed"}

\* C19: the step on which a stage fails ends the invocation (nothing runs
\* until the next one starts) and leaves every row, every detail and every
\* posted message as it was; a download or split failure of a live run comes
\* before anything was stored, analysed or posted; an analysis failure comes
\* before any post was attempted; between invocations nothing changes
C19_FailureEndsInvocation ==
    [][/\ (outcome' \in Failures)
             => /\ pc' = "idle"
                /\ mode' = "none"
                /\ rows' = rows
                /\ details' = details
                /\ posted' = posted
                /\ (outcome' \in {"download_failed", "split_failed"}) => pc = "idle"
                /\ (outcome' = "file_split_failed") => pc = "files"
                /\ (outcome' = "analyze_failed") => (pc = "analyze" /\ attempted = {})
                /\ (outcome' = "notify_failed") => pc = "notify"
       /\ (pc' # "idle") => outcome' = "running"
       /\ (pc = "idle" /\ pc' = "idle")
             => (rows' = rows /\ details' = details /\ posted' = posted)]_vars

\* a live run has posted one row and failed on the next: the first is
\* NOTIFIED, the second still NOT_YET, both keep their details
C19_Witness ==
    /\ pc = "idle"
    /\ outcome = "notify_failed"
    /\ \E i, j \in Ids :
          /\ rows[i].notify_status = "NOTIFIED"
          /\ posted[i] = 1
          /\ rows[j].notify_status = "NOT_YET"
          /\ posted[j] = 0
          /\ HasDetail(i)
          /\ HasDetail(j)

\* the place of the last <span> of the zone z that holds the statement t,
\* counted from the top of the page; 0 when none does
LastPlace(z, t) ==
    LET found == FindAll(z)
        at    == {k \in 1..Len(found) : found[k] = t}
    IN  IF at = {} THEN 0 ELSE CHOOSE k \in at : \A l \in at : l <= k

\* the zone a running pass stores and its text
PassZone == IF pc = "curr" THEN "CURR" ELSE "PAST"

PassText == IF pc = "curr" THEN webpage_text_dev[1] ELSE webpage_text_dev[2]

\* the rows the running pass has stored are of its zone and stand on the
\* page, and of two of them the one stored first, with the smaller id, stands
\* lower on the page
PassOldestFirst ==
    (pc \in {"curr", "past"})
        => /\ \A i \in (pass_start + 1)..Len(rows) :
                 /\ rows[i].text_pos = PassZone
                 /\ LastPlace(PassText, rows[i].raw_text) > 0
           /\ \A i, j \in (pass_start + 1)..Len(rows) :
                 (i < j) => LastPlace(PassText, rows[i].raw_text)
                               > LastPlace(PassText, rows[j].raw_text)

\* C20 (as stated, refuted by the code): a pass stores oldest first, and of
\* the rows one invocation has stored every row of the current zone has a
\* smaller id than every row of the past zone
C20_CurrBeforePastInInvocation ==
    /\ PassOldestFirst
    /\ (pc \in {"files", "curr", "past"})
          => \A i, j \in (run_start + 1)..Len(rows) :
                (rows[i].text_pos = "CURR" /\ rows[j].text_pos = "PAST") => i < j

\* C20 (as the code has it): a pass stores oldest first, and of the rows
\* stored from one page (the page of a live run, one file of store_old_data)
\* every row of the current zone has a smaller id than every row of the past
\* zone
C20_CurrBeforePastInPage ==
    /\ PassOldestFirst
    /\ (pc \in {"curr", "past"})
          => /\ page_start <= pass_start
             /\ \A i \in (page_start + 1)..pass_start : rows[i].text_pos = "CURR"
             /\ \A i, j \in (page_start + 1)..Len(rows) :
                   (rows[i].text_pos = "CURR" /\ rows[j].text_pos = "PAST") => i < j

\* store_old_data is at its second file: the first file gave a row of the
\* past zone, this file has given a row of the current zone and then one of
\* the past zone
C20_Witness ==
    /\ pc = "past"
    /\ mode = "backfill"
    /\ run_start < page_start
    /\ rows[page_start].text_pos = "PAST"
    /\ page_start < pass_start
    /\ rows[pass_start].text_pos = "CURR"
    /\ pass_start < Len(rows)
    /\ rows[Len(rows)].text_pos = "PAST"
    /\ LastPlace(PassText, rows[Len(rows)].raw_text) = 1

\* C27: when _analyze_text raises in a pass of _analyze, the pass ends with
\* every detail committed before, those of the rows the pass had gone through
\* among them, still in the table; a row it raises on has no detail and its
\* notify_status is what it was, as is every other row
C27_AnalysisCommitsPerRow ==
    [][(pc = "analyze" /\ outcome' = "analyze_failed")
          => /\ details' = details
             /\ rows' = rows
             /\ \E id \in not_analyzed_list :
                   /\ AnalyzeRaises(rows[id])
                   /\ \A d \in details' : d.raw_text_id # id
                   /\ rows'[id].notify_status = rows[id].notify_status]_vars

\* the first pass there was went through one row and failed on another: the
\* first has its detail, the other has none and is NOT_YET
C27_Witness ==
    /\ pc = "idle"
    /\ outcome = "analyze_failed"
    /\ fetches = 1
    /\ \E i, j \in Ids :
          /\ HasDetail(i)
          /\ ~HasDetail(j)
          /\ AnalyzeRaises(rows[j])
          /\ rows[j].notify_status = "NOT_YET"

\* C28: a pass of _analyze takes up exactly the rows without detail at its
\* start and gives details to rows of that list only; when it returns
\* without error every row has a detail; a pass that starts when every row
\* has one takes up nothing, adds no detail and changes no row
C28_AnalyzesExactlyUnanalyzed ==
    [][/\ (pc # "analyze" /\ pc' = "analyze")
             => not_analyzed_list'
                   = {i \in 1..Len(rows') : \A d \in details' : d.raw_text_id # i}
       /\ (pc = "analyze")
             => /\ \A d \in details' \ details : d.raw_text_id \in not_analyzed_list
                /\ \A i \in Ids :
                      rows'[i] # rows[i] => i \in not_analyzed_list
                /\ Len(rows') = Len(rows)
                /\ (not_analyzed_list = {}) => (details' = details /\ rows' = rows)
       /\ (pc = "analyze" /\ pc' # "analyze"
              /\ outcome' \notin {"analyze_failed", "killed"})
             => \A i \in 1..Len(rows') : \E d \in details' : d.raw_text_id = i]_vars

\* a live run analysed and posted the one row there is; store_old_data, with
\* no file to read, is in the pass of _analyze that follows, with nothing to
\* visit
C28_Witness ==
    /\ pc = "analyze"
    /\ mode = "backfill"
    /\ not_analyzed_list = {}
    /\ fetches = 1
    /\ Len(rows) = 1
    /\ rows[1].notify_status = "NOTIFIED"
    /\ HasDetail(1)

\* C29: an invocation that has started returns; a run of execute that ends
\* without a failure has gone through _notify to its end, and then every row
\* has a detail and no row is NOT_YET; a run ends in _analyze only when a row
\* does not parse, and in _notify only on a row whose post was due
C29_RunTerminatesClean ==
    /\ (pc # "idle") ~> (pc = "idle")
    /\ [][/\ (mode = "live" /\ outcome' = "completed")
                => /\ pc = "notify"
                   /\ \A i \in 1..Len(rows') :
                         /\ \E d \in details' : d.raw_text_id = i
                         /\ rows'[i].notify_status # "NOT_YET"
          /\ (mode = "live" /\ outcome' = "analyze_failed")
                => \E i \in Ids : ~HasDetail(i) /\ AnalyzeRaises(rows[i])
          /\ (mode = "live" /\ outcome' = "notify_failed")
                => \E i \in not_notified_list : rows[i].notify_status = "NOT_YET"]_vars

\* a run of execute has stored two statements, analysed and posted both and
\* returned
C29_Witness ==
    /\ pc = "idle"
    /\ outcome = "completed"
    /\ fetches = 1
    /\ Len(rows) = 2
    /\ \A i \in Ids : HasDetail(i) /\ rows[i].notify_status = "NOTIFIED" /\ posted[i] = 1

\* C30 (refuted by the code): with execute run again and again and every
\* post succeeding, a row that is NOT_YET and whose text parses does not stay
\* NOT_YET: it is NOTIFIED in the end (or, when its statement reports an
\* incident already over, SKIPPED), whatever other rows the table has
C30_PendingEventuallySent ==
    \A i \in 1..(MaxFetch * MaxPage) :
        [](( /\ i \in Ids
             /\ rows[i].notify_status = "NOT_YET"
             /\ ~AnalyzeRaises(rows[i]))
              => <>(i \in Ids /\ rows[i].notify_status \in {"NOTIFIED", "SKIPPED"}))

\* the row was inserted by store_old_data: its retr_dt is a file's time
Backfilled(r) == r.retr_dt \in FileTimes

\* C31: store_old_data posts nothing, and a row it inserted is SKIPPED for
\* good, is never in the selection of _notify and is never posted, nor is any
\* row with its text and zone: a live page that lists the statement again in
\* that zone adds no row
C31_BackfillNeverPosted ==
    [][/\ mode = "backfill" =>
            /\ pc' \notin {"notify", "notified"}
            /\ \A i \in 1..Len(posted') :
                  posted'[i] = IF i <= Len(posted) THEN posted[i] ELSE 0
       /\ \A i \in 1..Len(rows') :
            Backfilled(rows'[i]) =>
                /\ rows'[i].notify_status = "SKIPPED"
                /\ i \notin not_notified_list'
                /\ \A j \in 1..Len(rows') :
                      (rows'[j].raw_text = rows'[i].raw_text /\ rows'[j].text_pos = rows'[i].text_pos)
                          => j = i /\ posted'[j] = 0]_vars

\* a backfill has stored a statement of the past zone; a live page lists
\* it again in its past zone together with a new statement, and the pass
\* over that zone has ended: one row was added, the new one, NOT_YET
C31_Witness ==
    /\ mode = "live"
    /\ pc = "past"
    /\ matches = <<>>
    /\ Len(rows) = 2
    /\ Backfilled(rows[1])
    /\ rows[1].text_pos = "PAST"
    /\ rows[1].notify_status = "SKIPPED"
    /\ rows[1].raw_text \in Range(OldestFirst[webpage_text_dev[2]])
    /\ ~Backfilled(rows[2])
    /\ rows[2].text_pos = "PAST"
    /\ rows[2].notify_status = "NOT_YET"

\* C32: a turn of the ingest loop on a statement whose text is stored under
\* the other zone only adds one row at the end, with that text, the zone of
\* the pass and the notify_status of the pass, and changes no row there was
C32_DedupByZone ==
    [][(/\ pc \in {"curr", "past"}
        /\ pc' = pc
        /\ matches # <<>>
        /\ \E i \in Ids : rows[i].raw_text = Head(matches) /\ rows[i].text_pos # Zone
        /\ \A i \in Ids : rows[i].raw_text = Head(matches) => rows[i].text_pos # Zone)
          => /\ Len(rows') = Len(rows) + 1
             /\ SubSeq(rows', 1, Len(rows)) = rows
             /\ rows'[Len(rows')].raw_text = Head(matches)
             /\ rows'[Len(rows')].text_pos = Zone
             /\ rows'[Len(rows')].notify_status =
                    (IF mode = "live" THEN "NOT_YET" ELSE "SKIPPED")]_vars

\* a statement stored from the current zone and NOTIFIED is listed in the
\* past zone by a later live page: the pass has added a second row for it,
\* NOT_YET, and the first row is still NOTIFIED
C32_Witness ==
    /\ mode = "live"
    /\ pc = "past"
    /\ Len(rows) = 2
    /\ rows[2].raw_text = rows[1].raw_text
    /\ rows[1].text_pos = "CURR"
    /\ rows[1].notify_status = "NOTIFIED"
    /\ rows[2].text_pos = "PAST"
    /\ rows[2].notify_status = "NOT_YET"

\* C33: over the passes of one process after another, rows keep their ids
\* and the notify_status of a row changes only when it is NOT_YET, to
\* SKIPPED or to NOTIFIED: it changes at most once, and a NOTIFIED or
\* SKIPPED row stays what it is
C33_NotifyStatusMonotone ==
    [][/\ Len(rows') >= Len(rows)
       /\ \A i \in Ids :
            rows'[i].notify_status # rows[i].notify_status
                => /\ rows[i].notify_status = "NOT_YET"
                   /\ rows'[i].notify_status \in {"SKIPPED", "NOTIFIED"}]_vars

\* live runs have inserted two rows NOT_YET; _analyze has made one of them
\* SKIPPED and _notify the other NOTIFIED, and a later run has left both
C33_Witness ==
    /\ pc = "idle"
    /\ fetches = MaxFetch
    /\ outcome = "completed"
    /\ \E i, j \in Ids :
          /\ ~Backfilled(rows[i])
          /\ rows[i].notify_status = "SKIPPED"
          /\ ~Backfilled(rows[j])
          /\ rows[j].notify_status = "NOTIFIED"
          /\ posted[j] = 1

-----------------------------------------------------------------------------
(* Properties of _analyze_text, under AnalyzerSpec *)

\* the call has returned a detail
Returned == detail_ret # None /\ "status" \in DOMAIN detail_ret[1]

\* the month the statement handed in starts with
StatedMonth == Int2(text_arg[1].raw_text, 1)

\* C14: for every retrieval date and every month 01..12 a statement starts
\* with, the year of open_dt is the year of the row's retr_dt less one when
\* the month of retr_dt is before the statement's month, and the year of
\* retr_dt otherwise
C14_YearInference ==
    Returned =>
        /\ StatedMonth \in 1..12
        /\ detail_ret[1].open_dt.month = StatedMonth
        /\ detail_ret[1].open_dt.year =
              (IF text_arg[1].retr_dt.month < StatedMonth
               THEN text_arg[1].retr_dt.year - 1
               ELSE text_arg[1].retr_dt.year)

\* a December statement retrieved in January is dated to the year before
C14_Witness ==
    /\ Returned
    /\ StatedMonth = 12
    /\ text_arg[1].retr_dt.month = 1
    /\ detail_ret[1].open_dt.year = text_arg[1].retr_dt.year - 1
\* _get_close_dt returned (it did not raise)
CloseReturned == close_ret # None /\ "close_dt" \in DOMAIN close_ret[1]

\* the minutes since midnight status_str starts with
StatedClose == 60 * Int2(close_arg[1][1], 1) + Int2(close_arg[1][1], 4)

\* date a is the calendar day after date b
DayAfter(a, b) ==
    \/ a.year = b.year /\ a.month = b.month /\ a.day = b.day + 1
    \/ /\ a.day = 1
       /\ b.day = DaysInMonth(b.year, b.month)
       /\ \/ a.year = b.year /\ a.month = b.month + 1
          \/ a.year = b.year + 1 /\ a.month = 1 /\ b.month = 12

SameDay(a, b) == a.year = b.year /\ a.month = b.month /\ a.day = b.day

\* C15: whenever status_str starts with a time of day HH:MM, the close_dt
\* that _get_close_dt returns is at HH:MM, on the calendar day after open_dt's
\* when HH:MM is before open_dt's time of day and on open_dt's own day
\* otherwise, also when the two times are equal
C15_CloseRollover ==
    (CloseReturned /\ CloseMatches(close_arg[1][1]))
        => /\ close_ret[1].close_dt # None
           /\ 60 * close_ret[1].close_dt[1].hour + close_ret[1].close_dt[1].minute
                 = StatedClose
           /\ IF StatedClose < 60 * close_arg[1][2].hour + close_arg[1][2].minute
              THEN DayAfter(close_ret[1].close_dt[1], close_arg[1][2])
              ELSE SameDay(close_ret[1].close_dt[1], close_arg[1][2])

\* opened at 23:50 on the last day of a year and closed at 00:10: close_dt is
\* on the first day of the next year
C15_Witness ==
    /\ CloseReturned
    /\ CloseMatches(close_arg[1][1])
    /\ close_arg[1][2].month = 12
    /\ close_arg[1][2].day = 31
    /\ StatedClose = 10
    /\ close_ret[1].close_dt
          = Some(DateTime(close_arg[1][2].year + 1, 1, 1, 0, 10))

\* the statement handed in is the dispatch statement with category clause cat
HasClause(cat) ==
    /\ text_arg # None
    /\ text_arg[1].raw_text
          = Statement(3, 5, 9, 15, HomeCity, Block, <<"ni">>, cat, <<"no", "tame">>,
                      Dispatched)

\* C16: the category is that of the first keyword, in the order fire, rescue,
\* alert, medical, that the category clause contains, whatever other keywords
\* it contains and wherever they stand, and OTHER when it contains none; the
\* sub-category is the clause as written
C16_CategoryFirstMatch ==
    \A cat \in CategoryClauses :
        (Returned /\ HasClause(cat))
            => /\ detail_ret[1].sub_category = cat
               /\ detail_ret[1].main_category
                     = (IF "kasai" \in Range(cat) THEN "FIRE"
                        ELSE IF "kyujo" \in Range(cat) THEN "RESCUE"
                        ELSE IF "keikai" \in Range(cat) THEN "ALERT"
                        ELSE IF "kyukyu" \in Range(cat) THEN "MEDICAL_SUPPORT"
                        ELSE "OTHER")

\* a clause with the rescue keyword before the fire keyword is a FIRE
C16_Witness ==
    /\ Returned
    /\ HasClause(<<"kyujo", "kasai">>)
    /\ detail_ret[1].main_category = "FIRE"
    /\ detail_ret[1].sub_category = <<"kyujo", "kasai">>
\* the statement handed in has the status clause Clause(t, ns)
HasStatus(t, ns) == text_arg # None /\ text_arg[1].raw_text = StatusStatement(t, ns)

\* C23: a status clause with the dispatch phrase gives OPENED when the row
\* is of the current zone and CLOSED when it is of the past zone, and no
\* close_dt in either case, whatever leading time and whatever other status
\* phrase, before or after it, the clause has
C23_DispatchByZone ==
    \A t \in LeadingTimes, ns \in PhraseLists :
        (Returned /\ HasStatus(t, ns) /\ "OPENED" \in Range(ns))
            => /\ text_arg[1].text_pos \in {"CURR", "PAST"}
               /\ detail_ret[1].status = "OPENED" <=> text_arg[1].text_pos = "CURR"
               /\ detail_ret[1].status = "CLOSED" <=> text_arg[1].text_pos = "PAST"
               /\ detail_ret[1].close_dt = None

\* "14:30 <extinguished> <dispatched>" in the current zone is OPENED, without
\* close_dt
C23_Witness ==
    /\ Returned
    /\ HasStatus(Two(14) \o <<":">> \o Two(30), <<"EXTINGUISHED", "OPENED">>)
    /\ text_arg[1].text_pos = "CURR"
    /\ detail_ret[1].status = "OPENED"
    /\ detail_ret[1].close_dt = None

\* C24: the status is that of the first of the phrases dispatched, rescue
\* complete, no extinguishing needed, contained, extinguished, in this order,
\* that the status clause has (for the dispatch phrase OPENED or CLOSED by
\* the zone), wherever in the clause the phrase stands, and CLOSED when the
\* clause has none of them
C24_StatusFirstMatch ==
    \A t \in LeadingTimes, ns \in PhraseLists :
        (Returned /\ HasStatus(t, ns))
            => detail_ret[1].status
                  = (IF "OPENED" \in Range(ns)
                     THEN (IF text_arg[1].text_pos = "CURR" THEN "OPENED" ELSE "CLOSED")
                     ELSE IF "RESCUE_COMPLETE" \in Range(ns) THEN "RESCUE_COMPLETE"
                     ELSE IF "NO_EXTINGUISH_NEEDED" \in Range(ns)
                     THEN "NO_EXTINGUISH_NEEDED"
                     ELSE IF "CONTAINED" \in Range(ns) THEN "CONTAINED"
                     ELSE IF "EXTINGUISHED" \in Range(ns) THEN "EXTINGUISHED"
                     ELSE "CLOSED")

\* "<extinguished> <contained>" is CONTAINED
C24_Witness ==
    /\ Returned
    /\ HasStatus(<<>>, <<"EXTINGUISHED", "CONTAINED">>)
    /\ detail_ret[1].status = "CONTAINED"

\* the statement handed in is the dispatch statement of the home city with
\* the address clause address
HasAddress(address) ==
    /\ text_arg # None
    /\ text_arg[1].raw_text
          = Statement(3, 5, 9, 15, HomeCity, address, <<"ni">>, BuildingFire,
                      <<"no", "tame">>, Dispatched)

\* C25 (refuted by the code): for an address clause with at most one space
\* _analyze_text returns a detail; address2 is what stands before the space
\* (the whole clause when it has none), address3 what stands after it, and
\* none when nothing does
C25_AddressTotal ==
    \A address \in {a \in Addresses : Cardinality({i \in 1..Len(a) : a[i] = " "}) <= 1} :
        (HasAddress(address) /\ detail_ret # None)
            => /\ Returned
               /\ detail_ret[1].address2 = <<address[1]>>
               /\ detail_ret[1].address3
                     = (IF Len(address) = 3 THEN Some(<<address[3]>>) ELSE None)

\* the status clause of the statement handed in
StatusClause == m_2nd(m_1st(text_arg[1].raw_text).next).status

\* C26: the detail has a close_dt exactly when its status is
\* RESCUE_COMPLETE, CONTAINED or EXTINGUISHED and the status clause starts
\* with a time HH:MM; it has none when the status is OPENED,
\* NO_EXTINGUISH_NEEDED or CLOSED, with or without a leading time, and none
\* when the clause has no leading time
C26_CloseOnlyWhenRead ==
    Returned
        => /\ detail_ret[1].close_dt # None
                 <=> /\ detail_ret[1].status
                           \in {"RESCUE_COMPLETE", "CONTAINED", "EXTINGUISHED"}
                     /\ CloseMatches(StatusClause)
           /\ (detail_ret[1].status \in {"OPENED", "NO_EXTINGUISH_NEEDED", "CLOSED"})
                 => detail_ret[1].close_dt = None
           /\ (~CloseMatches(StatusClause)) => detail_ret[1].close_dt = None

\* "14:30 <no extinguishing needed>" has no close_dt
C26_Witness ==
    /\ Returned
    /\ HasStatus(Two(14) \o <<":">> \o Two(30), <<"NO_EXTINGUISH_NEEDED">>)
    /\ CloseMatches(StatusClause)
    /\ detail_ret[1].status = "NO_EXTINGUISH_NEEDED"
    /\ detail_ret[1].close_dt = None

\* C34: a detail _analyze_text returns with a close_dt, which _analyze
\* commits as returned, has open_dt <= close_dt < open_dt + 24 hours
C34_CloseWithinADay ==
    (Returned /\ detail_ret[1].close_dt # None)
        => /\ MinutesBetween(detail_ret[1].close_dt[1], detail_ret[1].open_dt) >= 0
           /\ MinutesBetween(detail_ret[1].close_dt[1], detail_ret[1].open_dt) < 1440

\* opened on 5 March at 09:15 and reported over at 09:14: close_dt is on
\* 6 March, 23 hours 59 minutes later
C34_Witness ==
    /\ Returned
    /\ detail_ret[1].close_dt # None
    /\ detail_ret[1].open_dt.month = 3
    /\ detail_ret[1].open_dt.day = 5
    /\ detail_ret[1].close_dt[1].day = 6
    /\ detail_ret[1].close_dt[1].hour = 9
    /\ detail_ret[1].close_dt[1].minute = 14
    /\ MinutesBetween(detail_ret[1].close_dt[1], detail_ret[1].open_dt) = 1439

-----------------------------------------------------------------------------
(* Two invocations of execute against one store.  Each SELECT and each
   commit is one step on the database file; between its steps an invocation
   holds no lock (the sessions are not autoflushed, SELECTs open no
   transaction, and no table has a constraint on raw_text and text_pos) *)

Procs == {1, 2}

\* the pages the two invocations read: at most one statement on a page
ConcurrentPages ==
    {d \in SplitPages : Len(OldestFirst[d[1]]) + Len(OldestFirst[d[2]]) <= 1}

\* the local variables of an invocation that has not started
Fresh ==
    [pc |-> "idle", dev |-> <<>>, matches |-> <<>>, list |-> {}, cur |-> None,
     outcome |-> "none"]

\* what the steps of the two invocations leave alone
one_vars ==
    <<pc, mode, webpage_text_dev, matches, retrieve_dt, notify_stat, not_analyzed_list,
      not_notified_list, cur, attempted, outcome, pass_start, unsplit, run_start,
      page_start, fetches, text_arg, detail_ret, close_arg, close_ret>>

\* the zone of the loop invocation p is in
ZoneOf(p) == IF inv[p].pc \in {"curr", "curr_add"} THEN "CURR" ELSE "PAST"

\* invocation p has returned
Ended(p, how) == inv' = [inv EXCEPT ![p] = [Fresh EXCEPT !.pc = "done", !.outcome = how]]

ConcurrentInit ==
    /\ Installed
    /\ text_arg = None
    /\ detail_ret = None
    /\ close_arg = None
    /\ close_ret = None
    /\ inv = [p \in Procs |-> Fresh]

\* the page is downloaded and split; _commit_disaster_list_curr starts
ConcExecute(p) ==
    /\ inv[p].pc = "idle"
    /\ \E d \in ConcurrentPages :
          inv' = [inv EXCEPT ![p] = [Fresh EXCEPT !.pc = "curr", !.dev = d,
                                                   !.matches = OldestFirst[d[1]]]]
    /\ UNCHANGED <<rows, details, posted, one_vars>>

\* download_webpage or _split_webtext raises
ConcExecuteFails(p) ==
    /\ inv[p].pc = "idle"
    /\ \E how \in {"download_failed", "split_failed"} : Ended(p, how)
    /\ UNCHANGED <<rows, details, posted, one_vars>>

\* the query "registered": a statement that has a row is passed over, for one
\* that has none the invocation goes on to build the row
ConcRegistered(p) ==
    /\ inv[p].pc \in {"curr", "past"}
    /\ inv[p].matches # <<>>
    /\ inv' = [inv EXCEPT ![p] =
                  IF registered(rows, Head(inv[p].matches), ZoneOf(p))
                  THEN [@ EXCEPT !.matches = Tail(@)]
                  ELSE [@ EXCEPT !.pc = IF inv[p].pc = "curr" THEN "curr_add"
                                        ELSE "past_add"]]
    /\ UNCHANGED <<rows, details, posted, one_vars>>

\* session.add and session.commit under a unique constraint on raw_text and
\* text_pos: the INSERT of a statement that has a row by now fails
ConcCommitUnique(p) ==
    /\ inv[p].pc \in {"curr_add", "past_add"}
    /\ IF registered(rows, Head(inv[p].matches), ZoneOf(p))
       THEN /\ Ended(p, "commit_failed")
            /\ UNCHANGED <<rows, posted>>
       ELSE /\ \E now \in Nows :
                  rows' = Append(rows, raw_text_data(Head(inv[p].matches), now, ZoneOf(p),
                                                     "NOT_YET"))
            /\ posted' = Append(posted, 0)
            /\ inv' = [inv EXCEPT ![p] =
                          [@ EXCEPT !.matches = Tail(@),
                                    !.pc = IF inv[p].pc = "curr_add" THEN "curr"
                                           ELSE "past"]]
    /\ UNCHANGED <<details, one_vars>>

\* session.add(raw_text_data); session.commit()
ConcCommit(p) ==
    /\ inv[p].pc \in {"curr_add", "past_add"}
    /\ \E now \in Nows :
          rows' = Append(rows, raw_text_data(Head(inv[p].matches), now, ZoneOf(p),
                                             "NOT_YET"))
    /\ posted' = Append(posted, 0)
    /\ inv' = [inv EXCEPT ![p] =
                  [@ EXCEPT !.matches = Tail(@),
                            !.pc = IF inv[p].pc = "curr_add" THEN "curr" ELSE "past"]]
    /\ UNCHANGED <<details, one_vars>>

\* _commit_disaster_list_curr returns, _commit_disaster_list_past starts
ConcCurrReturns(p) ==
    /\ inv[p].pc = "curr"
    /\ inv[p].matches = <<>>
    /\ inv' = [inv EXCEPT ![p] = [@ EXCEPT !.pc = "past",
                                           !.matches = OldestFirst[inv[p].dev[2]]]]
    /\ UNCHANGED <<rows, details, posted, one_vars>>

\* _commit_disaster_list_past returns, _analyze queries the rows without detail
ConcPastReturns(p) ==
    /\ inv[p].pc = "past"
    /\ inv[p].matches = <<>>
    /\ inv' = [inv EXCEPT ![p] = [@ EXCEPT !.pc = "analyze", !.list = Unanalyzed]]
    /\ UNCHANGED <<rows, details, posted, one_vars>>

\* one turn of the loop of _analyze: the detail is added and committed
ConcAnalyze(p) ==
    /\ inv[p].pc = "analyze"
    /\ \E id \in {i \in inv[p].list : ~AnalyzeRaises(rows[i]) /\ ~HasDetail(i)} :
          /\ details' = details \cup {_analyze_text(id, rows[id])}
          /\ rows' = IF _analyze_text(id, rows[id]).status = "CLOSED"
                     THEN [rows EXCEPT ![id].notify_status = "SKIPPED"]
                     ELSE rows
          /\ inv' = [inv EXCEPT ![p] = [@ EXCEPT !.list = @ \ {id}]]
    /\ UNCHANGED <<posted, one_vars>>

\* _analyze_text raises, or the INSERT of the detail fails on the primary key
\* raw_text_id because the other invocation has committed one for the row
ConcAnalyzeFails(p) ==
    /\ inv[p].pc = "analyze"
    /\ {i \in inv[p].list : AnalyzeRaises(rows[i]) \/ HasDetail(i)} # {}
    /\ Ended(p, "analyze_failed")
    /\ UNCHANGED <<rows, details, posted, one_vars>>

\* _analyze returns, _notify queries the rows that are NOT_YET
ConcAnalyzeReturns(p) ==
    /\ inv[p].pc = "analyze"
    /\ inv[p].list = {}
    /\ inv' = [inv EXCEPT ![p] = [@ EXCEPT !.pc = "notify", !.list = NotYet]]
    /\ UNCHANGED <<rows, details, posted, one_vars>>

\* _notify looking at notify_status again before it posts: a row that is
\* NOTIFIED by now is passed over
ConcNotifyPostUnlessSent(p) ==
    /\ inv[p].pc = "notify"
    /\ \E id \in {i \in inv[p].list : HasDetail(i)} :
          IF rows[id].notify_status = "NOT_YET"
          THEN /\ posted' = [posted EXCEPT ![id] = @ + 1]
               /\ inv' = [inv EXCEPT ![p] = [@ EXCEPT !.pc = "notified", !.cur = Some(id)]]
          ELSE /\ posted' = posted
               /\ inv' = [inv EXCEPT ![p] = [@ EXCEPT !.list = @ \ {id}]]
    /\ UNCHANGED <<rows, details, one_vars>>

\* the message of a selected row is rendered and post_to_discord returns
ConcNotifyPost(p) ==
    /\ inv[p].pc = "notify"
    /\ \E id \in {i \in inv[p].list : HasDetail(i)} :
          /\ posted' = [posted EXCEPT ![id] = @ + 1]
          /\ inv' = [inv EXCEPT ![p] = [@ EXCEPT !.pc = "notified", !.cur = Some(id)]]
    /\ UNCHANGED <<rows, details, one_vars>>

\* raw_text_data.notify_status = NOTIFIED; session.commit()
ConcNotifyCommit(p) ==
    /\ inv[p].pc = "notified"
    /\ rows' = [rows EXCEPT ![inv[p].cur[1]].notify_status = "NOTIFIED"]
    /\ inv' = [inv EXCEPT ![p] = [@ EXCEPT !.pc = "notify", !.cur = None,
                                           !.list = @ \ {inv[p].cur[1]}]]
    /\ UNCHANGED <<details, posted, one_vars>>

\* rendering raises (the row has no detail) or post_to_discord raises
ConcNotifyFails(p) ==
    /\ inv[p].pc = "notify"
    /\ inv[p].list # {}
    /\ Ended(p, "notify_failed")
    /\ UNCHANGED <<rows, details, posted, one_vars>>

\* _notify and execute return
ConcNotifyReturns(p) ==
    /\ inv[p].pc = "notify"
    /\ inv[p].list = {}
    /\ Ended(p, "completed")
    /\ UNCHANGED <<rows, details, posted, one_vars>>

ConcurrentNext ==
    \/ \E p \in Procs : ConcExecute(p)
    \/ \E p \in Procs : ConcExecuteFails(p)
    \/ \E p \in Procs : ConcRegistered(p)
    \/ \E p \in Procs : ConcCommit(p)
    \/ \E p \in Procs : ConcCurrReturns(p)
    \/ \E p \in Procs : ConcPastReturns(p)
    \/ \E p \in Procs : ConcAnalyze(p)
    \/ \E p \in Procs : ConcAnalyzeFails(p)
    \/ \E p \in Procs : ConcAnalyzeReturns(p)
    \/ \E p \in Procs : ConcNotifyPost(p)
    \/ \E p \in Procs : ConcNotifyCommit(p)
    \/ \E p \in Procs : ConcNotifyFails(p)
    \/ \E p \in Procs : ConcNotifyReturns(p)

ConcurrentSpec == ConcurrentInit /\ [][ConcurrentNext]_vars

-----------------------------------------------------------------------------
(* Properties of two invocations at once, under ConcurrentSpec *)

\* C21: nothing stands between the existence check and the insert: an
\* invocation that has found no row for a statement and zone adds a row for
\* them at its next step, also when the other invocation has added one in
\* between
C21_NoIngestLock ==
    [][\A p \in Procs :
          (inv[p].pc \in {"curr_add", "past_add"} /\ inv'[p] # inv[p])
              => /\ Len(rows') = Len(rows) + 1
                 /\ rows'[Len(rows')].raw_text = Head(inv[p].matches)
                 /\ rows'[Len(rows')].text_pos = ZoneOf(p)
                 /\ inv'[p].pc \in {"curr", "past"}]_vars

\* both invocations passed the check before either committed, and both have
\* returned: the table has two rows with one text and zone
C21_Witness ==
    /\ \A p \in Procs : inv[p].pc = "done"
    /\ \E i, j \in Ids :
          /\ i # j
          /\ rows[i].raw_text = rows[j].raw_text
          /\ rows[i].text_pos = rows[j].text_pos
\* C22: nothing stands between the selection and the post: an invocation
\* that has selected a row and goes on from _notify either fails or posts the
\* message of one of the rows it selected, whatever the notify_status of
\* that row has become since the selection
C22_NoNotifyLock ==
    [][\A p \in Procs :
          (inv[p].pc = "notify" /\ inv[p].list # {} /\ inv'[p] # inv[p])
              => \/ inv'[p].outcome = "notify_failed"
                 \/ \E id \in inv[p].list :
                       /\ posted' = [posted EXCEPT ![id] = @ + 1]
                       /\ inv'[p].cur = Some(id)
                       /\ inv'[p].pc = "notified"]_vars

\* both invocations selected the one row while it was NOT_YET and both have
\* returned: its message is in the channel twice
C22_Witness ==
    /\ \A p \in Procs : inv[p].pc = "done" /\ inv[p].outcome = "completed"
    /\ Len(rows) = 1
    /\ rows[1].notify_status = "NOTIFIED"
    /\ posted[1] = 2

====
